---- MODULE Spec2Model ----
(***************************************************************************)
(* safe-portals: type-safe, composable serialization/unserialization.      *)
(*                                                                         *)
(* A portal is a pair of pure functions read/write (plus a description).   *)
(* The model represents JavaScript values as tagged tuples, portals as     *)
(* data, and read/write as recursive operators that return an outcome:     *)
(* either a value or the exception thrown.  The state machine is a caller  *)
(* that issues read and write calls on portals, reads back what it wrote,  *)
(* writes back what it read, and steps through versioned.read's migration  *)
(* loop.                                                                   *)
(***************************************************************************)
EXTENDS Integers, Sequences, FiniteSets, TLC

(***************************************************************************)
(* JavaScript values.                                                      *)
(*   <<"undefined">>  <<"null">>  <<"boolean", b>>  <<"string", chars>>    *)
(*   <<"number", "fin", n>> (n counts 10^-FracDigits),                     *)
(*   <<"number", "nan", 0>>, <<"number", "inf", sign>>,                    *)
(*   <<"number", "pow", e>> and <<"number", "negpow", e>>: 10^e and -10^e  *)
(*   for a magnitude outside the fixed-point range (e >= 21 or e <= -7),   *)
(*   where Number::toString switches to exponent notation,                 *)
(*   <<"array", seq>>  <<"object", [key -> value]>>                        *)
(*   <<"date", "ok", ms>>  <<"date", "nan", 0>>                            *)
(* A string is its sequence of one-character strings, so that parsing is   *)
(* computed and not tabulated.                                             *)
(***************************************************************************)

\* decimal digits kept after the point by the fixed-point number model
FracDigits == 3

Unit == 10^FracDigits

undefined == <<"undefined">>

null == <<"null">>

Bool(b) == <<"boolean", b>>

Str(cs) == <<"string", cs>>

Num(n) == <<"number", "fin", n>>

IntNum(i) == Num(i * Unit)

NaN == <<"number", "nan", 0>>

Infinity == <<"number", "inf", 1>>

NegInfinity == <<"number", "inf", -1>>

\* 10^e, negated when neg, for e >= 21 or e <= -7
Pow10(neg, e) == <<"number", IF neg THEN "negpow" ELSE "pow", e>>

Arr(xs) == <<"array", xs>>

Obj(f) == <<"object", f>>

Date(ms) == <<"date", "ok", ms>>

InvalidDate == <<"date", "nan", 0>>

EmptyObj == Obj([k \in {} |-> undefined])

typeof(v) ==
  IF v[1] \in {"undefined", "boolean", "number", "string"} THEN v[1] ELSE "object"

instanceofArray(v) == v[1] = "array"

instanceofObject(v) == v[1] \in {"array", "object", "date"}

instanceofDate(v) == v[1] = "date"

\* o == null
looseNull(v) == v[1] \in {"undefined", "null"}

isNaN(v) == v[1] = "number" /\ v[2] = "nan"

isFinite(v) == v[1] = "number" /\ v[2] \in {"fin", "pow", "negpow"}

\* a finite number held in fixed point
IsFixed(v) == v[1] = "number" /\ v[2] = "fin"

\* a finite number held as a power of ten
IsPow(v) == v[1] = "number" /\ v[2] \in {"pow", "negpow"}

Abs(n) == IF n < 0 THEN -n ELSE n

\* Math.trunc on a finite number
MathTrunc(v) ==
  IF IsPow(v) THEN (IF v[3] < 0 THEN Num(0) ELSE v)
  ELSE IF v[3] < 0 THEN Num(-((Abs(v[3]) \div Unit) * Unit))
  ELSE Num((v[3] \div Unit) * Unit)

\* o[key] for a value that is neither null nor undefined
Get(o, key) ==
  IF o[1] = "object" /\ key \in DOMAIN o[2] THEN o[2][key] ELSE undefined

(***************************************************************************)
(* ToString, parseInt, parseFloat.                                         *)
(***************************************************************************)
HexDigits ==
  <<"0", "1", "2", "3", "4", "5", "6", "7", "8", "9", "a", "b", "c", "d", "e", "f">>

UpperHex == <<"A", "B", "C", "D", "E", "F">>

\* the value of a digit character, 36 for a character that is no digit
DigitValue(c) ==
  IF \E i \in 1..16 : HexDigits[i] = c
  THEN (CHOOSE i \in 1..16 : HexDigits[i] = c) - 1
  ELSE IF \E i \in 1..6 : UpperHex[i] = c
       THEN (CHOOSE i \in 1..6 : UpperHex[i] = c) + 9
       ELSE 36

RECURSIVE IntToChars(_)
IntToChars(n) ==
  IF n < 10 THEN <<HexDigits[n + 1]>>
  ELSE Append(IntToChars(n \div 10), HexDigits[(n % 10) + 1])

RECURSIVE PadLeft(_, _)
PadLeft(cs, width) == IF Len(cs) >= width THEN cs ELSE PadLeft(<<"0">> \o cs, width)

RECURSIVE StripZeros(_)
StripZeros(cs) ==
  IF cs # <<>> /\ cs[Len(cs)] = "0" THEN StripZeros(SubSeq(cs, 1, Len(cs) - 1)) ELSE cs

\* Number::toString for a finite number in the decimal-notation range
NumToChars(n) ==
  LET a == Abs(n)
      fr == a % Unit
  IN (IF n < 0 THEN <<"-">> ELSE <<>>)
       \o IntToChars(a \div Unit)
       \o (IF fr = 0 THEN <<>>
           ELSE <<".">> \o StripZeros(PadLeft(IntToChars(fr), FracDigits)))

RECURSIVE ToStringJS(_)
RECURSIVE JoinComma(_)
JoinComma(xs) ==
  IF xs = <<>> THEN <<>>
  ELSE LET h == IF looseNull(Head(xs)) THEN <<>> ELSE ToStringJS(Head(xs))
       IN IF Len(xs) = 1 THEN h ELSE h \o <<",">> \o JoinComma(Tail(xs))

\* ToString(v), as parseInt and parseFloat apply it to their argument.  Of a
\* Date only the leading token is kept: a weekday name, or "Invalid Date".
ToStringJS(v) ==
  CASE v[1] = "undefined" -> <<"u", "n", "d", "e", "f", "i", "n", "e", "d">>
    [] v[1] = "null" -> <<"n", "u", "l", "l">>
    [] v[1] = "boolean" ->
         IF v[2] THEN <<"t", "r", "u", "e">> ELSE <<"f", "a", "l", "s", "e">>
    [] v[1] = "string" -> v[2]
    [] v[1] = "number" ->
         IF v[2] = "nan" THEN <<"N", "a", "N">>
         ELSE IF v[2] = "inf"
              THEN (IF v[3] < 0 THEN <<"-">> ELSE <<>>)
                     \o <<"I", "n", "f", "i", "n", "i", "t", "y">>
              ELSE IF IsPow(v)
                   THEN (IF v[2] = "negpow" THEN <<"-">> ELSE <<>>)
                          \o <<"1", "e", IF v[3] < 0 THEN "-" ELSE "+">>
                          \o IntToChars(Abs(v[3]))
                   ELSE NumToChars(v[3])
    [] v[1] = "array" -> JoinComma(v[2])
    [] v[1] = "object" ->
         <<"[", "o", "b", "j", "e", "c", "t", " ", "O", "b", "j", "e", "c", "t", "]">>
    [] v[1] = "date" ->
         IF v[2] = "ok" THEN <<"D", "a", "y">> ELSE <<"I", "n", "v", "a", "l", "i", "d">>

IsWhiteSpace(c) == c = " "

RECURSIVE TrimLeft(_)
TrimLeft(s) == IF s # <<>> /\ IsWhiteSpace(Head(s)) THEN TrimLeft(Tail(s)) ELSE s

\* the longest prefix of s made of digits of the radix: its value, its length
\* and what follows it
RECURSIVE ScanDigits(_, _, _, _)
ScanDigits(s, radix, acc, n) ==
  IF s # <<>> /\ DigitValue(Head(s)) < radix
  THEN ScanDigits(Tail(s), radix, acc * radix + DigitValue(Head(s)), n + 1)
  ELSE [val |-> acc, n |-> n, rest |-> s]

StartsWith(s, prefix) ==
  Len(s) >= Len(prefix) /\ SubSeq(s, 1, Len(prefix)) = prefix

IsNegative(s) == s # <<>> /\ Head(s) = "-"

\* s without its sign
Unsigned(s) == IF s # <<>> /\ Head(s) \in {"+", "-"} THEN Tail(s) ELSE s

\* the number of the digits scanned, NaN when there are none
IntResult(neg, r) == IF r.n = 0 THEN NaN ELSE IntNum(IF neg THEN -r.val ELSE r.val)

parseIntDigits(neg, s) ==
  IF Len(s) >= 2 /\ s[1] = "0" /\ s[2] \in {"x", "X"}
  THEN IntResult(neg, ScanDigits(SubSeq(s, 3, Len(s)), 16, 0, 0))
  ELSE IntResult(neg, ScanDigits(s, 10, 0, 0))

parseIntChars(s) == parseIntDigits(IsNegative(s), Unsigned(s))

\* parseInt(o): the leading integer of ToString(o), NaN when there is none
parseInt(o) == parseIntChars(TrimLeft(ToStringJS(o)))

Signed(neg, mag) == Num(IF neg THEN -mag ELSE mag)

\* mant * 10^exponent for the exponent digits ep; a literal beyond the
\* largest double is Infinity
FloatScale(neg, mant, eneg, ep) ==
  IF ep.n = 0 THEN Signed(neg, mant)
  ELSE IF mant = Unit /\ eneg /\ ep.val >= 7 /\ ep.val <= 308 THEN Pow10(neg, -ep.val)
  ELSE IF mant = Unit /\ ~eneg /\ ep.val >= 21 /\ ep.val <= 308 THEN Pow10(neg, ep.val)
  ELSE IF eneg THEN Signed(neg, IF ep.val > 9 THEN 0 ELSE mant \div (10^ep.val))
  ELSE IF ep.val > 308 /\ mant > 0 THEN (IF neg THEN NegInfinity ELSE Infinity)
  ELSE Signed(neg, mant * (10^ep.val))

\* what follows the mantissa: an exponent part, or text that is ignored
FloatExponent(neg, mant, s) ==
  IF s # <<>> /\ Head(s) \in {"e", "E"}
  THEN FloatScale(neg, mant, IsNegative(Tail(s)), ScanDigits(Unsigned(Tail(s)), 10, 0, 0))
  ELSE Signed(neg, mant)

\* the integer digits ip and the fraction digits fp; digits beyond the
\* fixed-point resolution are dropped
FloatMantissa(neg, ip, fp) ==
  IF ip.n + fp.n = 0 THEN NaN
  ELSE FloatExponent(neg, ip.val * Unit + (fp.val * Unit) \div (10^fp.n), fp.rest)

FloatFraction(neg, ip) ==
  IF ip.rest # <<>> /\ Head(ip.rest) = "."
  THEN FloatMantissa(neg, ip, ScanDigits(Tail(ip.rest), 10, 0, 0))
  ELSE FloatMantissa(neg, ip, [val |-> 0, n |-> 0, rest |-> ip.rest])

parseFloatChars(s) ==
  IF StartsWith(Unsigned(s), <<"I", "n", "f", "i", "n", "i", "t", "y">>)
  THEN (IF IsNegative(s) THEN NegInfinity ELSE Infinity)
  ELSE FloatFraction(IsNegative(s), ScanDigits(Unsigned(s), 10, 0, 0))

\* parseFloat(o): the leading decimal literal of ToString(o), NaN when there
\* is none
parseFloat(o) == parseFloatChars(TrimLeft(ToStringJS(o)))

(***************************************************************************)
(* Date: the time value is an integer count of milliseconds since the      *)
(* epoch (UTC), or NaN for an invalid Date.  The model's integers are 32     *)
(* bits wide, so its dates lie within minutes of the epoch.                 *)
(***************************************************************************)
TruncDiv(a, b) == IF a < 0 THEN -((-a) \div b) ELSE a \div b

\* new Date(number): TimeClip truncates a finite number toward zero and
\* makes a magnitude above 8.64e15 an invalid Date
DateOfNumber(v) ==
  IF IsFixed(v) THEN Date(TruncDiv(v[3], Unit))
  ELSE IF IsPow(v) /\ v[3] < 0 THEN Date(0)
  ELSE InvalidDate

\* Date.prototype.getTime
getTime(d) == IF d[2] = "ok" THEN Num(d[3] * Unit) ELSE NaN

\* x * k and x / k on numbers, NaN and the infinities kept; a power of ten
\* stays on its side of the fixed-point range
NumTimes(v, k) == IF IsFixed(v) THEN Num(v[3] * k) ELSE v

NumOver(v, k) == IF IsFixed(v) THEN Num(TruncDiv(v[3], k)) ELSE v

IsLeap(y) == (y % 4 = 0 /\ y % 100 # 0) \/ y % 400 = 0

DaysInMonth(y, m) ==
  IF m = 2 THEN (IF IsLeap(y) THEN 29 ELSE 28)
  ELSE IF m \in {4, 6, 9, 11} THEN 30 ELSE 31

CivilRecord(y, m, d) == [y |-> y + (IF m <= 2 THEN 1 ELSE 0), m |-> m, d |-> d]

CivilFromMp(era, yoe, doy, mp) ==
  CivilRecord(yoe + era * 400, IF mp < 10 THEN mp + 3 ELSE mp - 9,
              doy - (153 * mp + 2) \div 5 + 1)

CivilFromDoy(era, yoe, doy) == CivilFromMp(era, yoe, doy, (5 * doy + 2) \div 153)

CivilFromYoe(era, doe, yoe) ==
  CivilFromDoy(era, yoe, doe - (365 * yoe + yoe \div 4 - yoe \div 100))

CivilFromEra(era, doe) ==
  CivilFromYoe(era, doe, (doe - doe \div 1460 + doe \div 36524 - doe \div 146096) \div 365)

\* the proleptic Gregorian date of a day number (days since 1970-01-01)
CivilFromDays(days) ==
  CivilFromEra((days + 719468) \div 146097, (days + 719468) % 146097)

DaysFromCivil(y, m, d) ==
  LET yy == IF m <= 2 THEN y - 1 ELSE y
      era == yy \div 400
      yoe == yy - era * 400
      doy == (153 * (IF m > 2 THEN m - 3 ELSE m + 9) + 2) \div 5 + d - 1
      doe == yoe * 365 + yoe \div 4 - yoe \div 100 + doy
  IN era * 146097 + doe - 719468

Pad(n, width) == PadLeft(IntToChars(n), width)

\* the year of an ISO string: four digits, or sign and six digits outside 0..9999
IsoYear(y) ==
  IF y >= 0 /\ y <= 9999 THEN Pad(y, 4)
  ELSE (IF y < 0 THEN <<"-">> ELSE <<"+">>) \o Pad(Abs(y), 6)

IsoOfCivil(c, t) ==
  IsoYear(c.y) \o <<"-">> \o Pad(c.m, 2) \o <<"-">> \o Pad(c.d, 2) \o <<"T">>
    \o Pad(t \div 3600000, 2) \o <<":">> \o Pad((t \div 60000) % 60, 2)
    \o <<":">> \o Pad((t \div 1000) % 60, 2) \o <<".">> \o Pad(t % 1000, 3)
    \o <<"Z">>

\* Date.prototype.toISOString of a valid time value: YYYY-MM-DDTHH:mm:ss.sssZ
toISOString(ms) == IsoOfCivil(CivilFromDays(ms \div 86400000), ms % 86400000)

AllDigits(s) == \A i \in DOMAIN s : DigitValue(s[i]) < 10

DecValue(s) == ScanDigits(s, 10, 0, 0).val

DateOfFields(y, m, d, hh, mm, ss, ms) ==
  IF /\ m >= 1 /\ m <= 12 /\ d >= 1 /\ d <= DaysInMonth(y, m)
     /\ mm <= 59 /\ ss <= 59
     /\ (hh <= 23 \/ (hh = 24 /\ mm = 0 /\ ss = 0 /\ ms = 0))
  THEN Date(DaysFromCivil(y, m, d) * 86400000
              + hh * 3600000 + mm * 60000 + ss * 1000 + ms)
  ELSE InvalidDate

\* Date.parse of the date-time form toISOString writes (four-digit year, UTC).
\* Any other string parses to NaN here: what engines make of the other ISO
\* forms depends on the time zone, and of non-ISO strings on the engine.
DateParse(s) ==
  IF /\ Len(s) = 24
     /\ s[5] = "-" /\ s[8] = "-" /\ s[11] = "T" /\ s[14] = ":" /\ s[17] = ":"
     /\ s[20] = "." /\ s[24] = "Z"
     /\ AllDigits(SubSeq(s, 1, 4)) /\ AllDigits(SubSeq(s, 6, 7))
     /\ AllDigits(SubSeq(s, 9, 10)) /\ AllDigits(SubSeq(s, 12, 13))
     /\ AllDigits(SubSeq(s, 15, 16)) /\ AllDigits(SubSeq(s, 18, 19))
     /\ AllDigits(SubSeq(s, 21, 23))
  THEN DateOfFields(DecValue(SubSeq(s, 1, 4)), DecValue(SubSeq(s, 6, 7)),
                    DecValue(SubSeq(s, 9, 10)), DecValue(SubSeq(s, 12, 13)),
                    DecValue(SubSeq(s, 15, 16)), DecValue(SubSeq(s, 18, 19)),
                    DecValue(SubSeq(s, 21, 23)))
  ELSE InvalidDate

(***************************************************************************)
(* Outcomes of a call: the value returned, or the exception thrown.        *)
(***************************************************************************)
Ok(v) == [kind |-> "ok", val |-> v, path |-> "", got |-> undefined]

\* class ValidationError { path, got }, thrown by validationError(path, got)
validationError(path, got) ==
  [kind |-> "ValidationError", val |-> undefined, path |-> path, got |-> got]

\* exceptions the JavaScript runtime itself throws
TypeError == [kind |-> "TypeError", val |-> undefined, path |-> "", got |-> undefined]

RangeError == [kind |-> "RangeError", val |-> undefined, path |-> "", got |-> undefined]

Returned(r) == r.kind = "ok"

ThrewValidationError(r) == r.kind = "ValidationError"

(***************************************************************************)
(* Portals as data.  read and write are the operators Read and Write       *)
(* below, which dispatch on the portal's constructor.                      *)
(***************************************************************************)
str == <<"str">>

nothing == <<"nothing">>

bool == <<"bool">>

int == <<"int">>

float == <<"float">>

raw == <<"raw">>

uuid == <<"uuid">>

dateIso == <<"dateIso">>

dateUnixSecs == <<"dateUnixSecs">>

dateUnixMillis == <<"dateUnixMillis">>

optional(s) == <<"optional", s>>

nullable(s) == <<"nullable", s>>

array(s) == <<"array", s>>

\* def: the declared fields in declaration order, a sequence of <<key, portal>>
obj(def) == <<"obj", def>>

partial_obj(def) == <<"partial_obj", def>>

\* def: the element portals in order
tuple(def) == <<"tuple", def>>

\* args: the candidate strings in order
oneOf(args) == <<"oneOf", args>>

\* args: tag0, portal0, tag1, portal1, ...
variant(args) == <<"variant", args>>

\* args: the record portals in order
combine(args) == <<"combine", args>>

\* migrations: a sequence of migration descriptions, see Migrate
versioned(schema, migrations) == <<"versioned", schema, migrations>>

\* Result.serializer({ok, error})
serializer(ok, error) == <<"result", ok, error>>

RECURSIVE Read(_, _)
RECURSIVE Write(_, _)

(***************************************************************************)
(* Primitive portals.                                                      *)
(***************************************************************************)
strRead(o) == IF typeof(o) = "string" THEN Ok(o) ELSE validationError("", o)

\* a write that converts its input to a string
strWriteCoercing(t) == Ok(Str(ToStringJS(t)))

strWrite(t) == IF typeof(t) = "string" THEN Ok(t) ELSE validationError("", t)

nothingRead(o) == Ok(undefined)

nothingWrite(o) == Ok(Str(<<>>))

boolRead(o) == IF typeof(o) = "boolean" THEN Ok(o) ELSE validationError("", o)

boolWrite(o) == IF typeof(o) = "boolean" THEN Ok(o) ELSE validationError("", o)

\* a read that keeps the fraction
intReadKeepingFraction(o) ==
  LET i == parseFloat(o) IN IF isNaN(i) THEN validationError("", o) ELSE Ok(i)

intRead(o) ==
  LET i == parseInt(o) IN IF isNaN(i) THEN validationError("", o) ELSE Ok(i)

intWrite(o) ==
  IF typeof(o) = "number" /\ isFinite(o) THEN Ok(MathTrunc(o))
  ELSE validationError("", o)

floatRead(o) ==
  LET i == parseFloat(o) IN IF isNaN(i) THEN validationError("", o) ELSE Ok(i)

floatWrite(o) ==
  IF typeof(o) = "number" /\ isFinite(o) THEN Ok(o) ELSE validationError("", o)

rawRead(o) == Ok(o)

rawWrite(o) == Ok(o)

\* /^[0-9a-f]{8}-[0-9a-f]{4}-[0-5][0-9a-f]{3}-[089ab][0-9a-f]{3}-[0-9a-f]{12}$/i
UUID_REGEX(s) ==
  /\ Len(s) = 36
  /\ \A i \in 1..36 :
       IF i \in {9, 14, 19, 24} THEN s[i] = "-"
       ELSE IF i = 15 THEN DigitValue(s[i]) <= 5
       ELSE IF i = 20 THEN DigitValue(s[i]) \in {0, 8, 9, 10, 11}
       ELSE DigitValue(s[i]) < 16

uuidRead(o) ==
  IF typeof(o) = "string" /\ UUID_REGEX(o[2]) THEN Ok(o) ELSE validationError("", o)

uuidWrite(t) ==
  IF typeof(t) = "string" /\ UUID_REGEX(t[2]) THEN Ok(t) ELSE validationError("", t)

dateUnixSecsRead(o) ==
  IF typeof(o) = "number"
  THEN LET d == DateOfNumber(NumTimes(o, 1000))
       IN IF isNaN(getTime(d)) THEN validationError("", o) ELSE Ok(d)
  ELSE IF instanceofDate(o)
       THEN (IF isNaN(getTime(o)) THEN validationError("", o) ELSE Ok(o))
       ELSE validationError("", o)

\* t.getTime() / 1000.0: exact in the model because Unit is a multiple of 1000
dateUnixSecsWrite(t) ==
  IF instanceofDate(t) THEN Ok(NumOver(getTime(t), 1000)) ELSE validationError("", t)

dateUnixMillisRead(o) ==
  IF typeof(o) = "number"
  THEN LET d == DateOfNumber(o)
       IN IF isNaN(getTime(d)) THEN validationError("", o) ELSE Ok(d)
  ELSE IF instanceofDate(o)
       THEN (IF isNaN(getTime(o)) THEN validationError("", o) ELSE Ok(o))
       ELSE validationError("", o)

dateUnixMillisWrite(t) ==
  IF instanceofDate(t) THEN Ok(getTime(t)) ELSE validationError("", t)

dateIsoRead(o) ==
  IF typeof(o) = "string"
  THEN LET d == DateParse(o[2])
       IN IF isNaN(getTime(d)) THEN validationError("", o) ELSE Ok(d)
  ELSE IF instanceofDate(o)
       THEN (IF isNaN(getTime(o)) THEN validationError("", o) ELSE Ok(o))
       ELSE validationError("", o)

\* toISOString throws a RangeError on an invalid Date
dateIsoWrite(t) ==
  IF instanceofDate(t)
  THEN (IF t[2] = "ok" THEN Ok(Str(toISOString(t[3]))) ELSE RangeError)
  ELSE validationError("", t)

(***************************************************************************)
(* Modifier combinators.                                                   *)
(***************************************************************************)
optionalRead(s, o) == IF looseNull(o) THEN Ok(undefined) ELSE Read(s, o)

optionalWrite(s, t) == IF looseNull(t) THEN Ok(null) ELSE Write(s, t)

\* a read that gives the absent value of optional
nullableReadAsOptional(s, o) == IF looseNull(o) THEN Ok(undefined) ELSE Read(s, o)

nullableRead(s, o) == IF looseNull(o) THEN Ok(null) ELSE Read(s, o)

nullableWrite(s, t) == IF looseNull(t) THEN Ok(null) ELSE Write(s, t)

(***************************************************************************)
(* Container combinators.  A loop of the source is a recursive operator    *)
(* over the loop index; a catch block is the test on the child's outcome.  *)
(***************************************************************************)
RECURSIVE CharsToString(_)
CharsToString(cs) == IF cs = <<>> THEN "" ELSE Head(cs) \o CharsToString(Tail(cs))

\* out[key] = v
Put(f, key, v) == [x \in DOMAIN f \cup {key} |-> IF x = key THEN v ELSE f[x]]

\* the own enumerable properties of a value, as {...v} and Object.assign copy them
Spread(v) ==
  CASE v[1] = "object" -> v[2]
    [] v[1] = "array" ->
         [x \in {ToString(j - 1) : j \in DOMAIN v[2]} |->
            v[2][CHOOSE j \in DOMAIN v[2] : ToString(j - 1) = x]]
    [] v[1] = "string" ->
         [x \in {ToString(j - 1) : j \in DOMAIN v[2]} |->
            Str(<<v[2][CHOOSE j \in DOMAIN v[2] : ToString(j - 1) = x]>>)]
    [] OTHER -> EmptyObj[2]

\* Object.assign(target, source)
Assign(f, g) == [x \in DOMAIN f \cup DOMAIN g |-> IF x \in DOMAIN g THEN g[x] ELSE f[x]]

\* a === b
StrictEquals(a, b) == a = b /\ a[1] \notin {"array", "object", "date"} /\ ~isNaN(a)

\* Array.prototype.indexOf, 0-based, -1 when absent
indexOf(xs, v) ==
  IF \E j \in DOMAIN xs : StrictEquals(xs[j], v)
  THEN (CHOOSE j \in DOMAIN xs :
          StrictEquals(xs[j], v) /\ \A k \in 1..(j - 1) : ~StrictEquals(xs[k], v)) - 1
  ELSE -1

\* a loop that goes on after a failure and reports the last one
RECURSIVE arrayReadLoopLastFailure(_, _, _, _)
arrayReadLoopLastFailure(s, o, i, out) ==
  IF ~(i < Len(o[2])) THEN out
  ELSE LET e == Read(s, o[2][i + 1])
       IN IF Returned(e)
          THEN arrayReadLoopLastFailure(s, o, i + 1,
                 IF Returned(out) THEN Ok(Arr(Append(out.val[2], e.val))) ELSE out)
          ELSE IF ThrewValidationError(e)
               THEN arrayReadLoopLastFailure(s, o, i + 1,
                      validationError("[" \o ToString(i) \o "]" \o e.path, o))
               ELSE e

\* the same, called as the loop of array.read is
arrayReadLoopToTheEnd(s, o, i, out) == arrayReadLoopLastFailure(s, o, i, Ok(Arr(out)))

RECURSIVE arrayReadLoop(_, _, _, _)
arrayReadLoop(s, o, i, out) ==
  IF ~(i < Len(o[2])) THEN Ok(Arr(out))
  ELSE LET e == Read(s, o[2][i + 1])
       IN IF Returned(e) THEN arrayReadLoop(s, o, i + 1, Append(out, e.val))
          ELSE IF ThrewValidationError(e)
               THEN validationError("[" \o ToString(i) \o "]" \o e.path, o)
               ELSE e

arrayRead(s, o) ==
  IF ~instanceofArray(o) THEN validationError("", o) ELSE arrayReadLoop(s, o, 0, <<>>)

\* a write loop that reports the index and drops the element's own path
RECURSIVE arrayWriteLoopIndexOnly(_, _, _, _)
arrayWriteLoopIndexOnly(s, o, i, out) ==
  IF ~(i < Len(o[2])) THEN Ok(Arr(out))
  ELSE LET e == Write(s, o[2][i + 1])
       IN IF Returned(e) THEN arrayWriteLoopIndexOnly(s, o, i + 1, Append(out, e.val))
          ELSE IF ThrewValidationError(e)
               THEN validationError("[" \o ToString(i) \o "]", o)
               ELSE e

RECURSIVE arrayWriteLoop(_, _, _, _)
arrayWriteLoop(s, o, i, out) ==
  IF ~(i < Len(o[2])) THEN Ok(Arr(out))
  ELSE LET e == Write(s, o[2][i + 1])
       IN IF Returned(e) THEN arrayWriteLoop(s, o, i + 1, Append(out, e.val))
          ELSE IF ThrewValidationError(e)
               THEN validationError("[" \o ToString(i) \o "]" \o e.path, o)
               ELSE e

arrayWrite(s, o) ==
  IF instanceofArray(o) THEN arrayWriteLoop(s, o, 0, <<>>) ELSE validationError("", o)

\* a loop that hands on the failure of a field as it is
RECURSIVE objReadLoopPassThrough(_, _, _, _)
objReadLoopPassThrough(def, o, k, out) ==
  IF k > Len(def) THEN Ok(Obj(out))
  ELSE LET e == Read(def[k][2], Get(o, def[k][1]))
       IN IF Returned(e) THEN objReadLoopPassThrough(def, o, k + 1, Put(out, def[k][1], e.val))
          ELSE e

\* a loop that leaves out the keys the input lacks, as partial_obj does
RECURSIVE objReadLoopSkippingAbsent(_, _, _, _)
objReadLoopSkippingAbsent(def, o, k, out) ==
  IF k > Len(def) THEN Ok(Obj(out))
  ELSE LET key == def[k][1]
           e == Read(def[k][2], Get(o, key))
       IN IF Get(o, key) = undefined
          THEN objReadLoopSkippingAbsent(def, o, k + 1, Put(out, key, undefined))
          ELSE IF Returned(e) THEN objReadLoopSkippingAbsent(def, o, k + 1, Put(out, key, e.val))
          ELSE IF ThrewValidationError(e)
               THEN validationError("." \o key \o e.path, o)
               ELSE e

RECURSIVE objReadLoop(_, _, _, _)
objReadLoop(def, o, k, out) ==
  IF k > Len(def) THEN Ok(Obj(out))
  ELSE LET key == def[k][1]
           e == Read(def[k][2], Get(o, key))
       IN IF Returned(e) THEN objReadLoop(def, o, k + 1, Put(out, key, e.val))
          ELSE IF ThrewValidationError(e)
               THEN validationError("." \o key \o e.path, o)
               ELSE e

objRead(def, o) ==
  IF ~instanceofObject(o) \/ instanceofArray(o) THEN validationError("", o)
  ELSE objReadLoop(def, o, 1, EmptyObj[2])

\* key in o
Has(o, key) == o[1] = "object" /\ key \in DOMAIN o[2]

\* obj(def).read_with_defaults(defaults, o): a declared key the input has
\* is read with its portal, a key it lacks takes the value the defaults
\* give it, which is typed already and is not read
RECURSIVE read_with_defaultsLoop(_, _, _, _, _)
read_with_defaultsLoop(def, defaults, o, k, out) ==
  IF k > Len(def) THEN Ok(Obj(out))
  ELSE LET key == def[k][1]
           e == Read(def[k][2], Get(o, key))
       IN IF ~Has(o, key)
          THEN read_with_defaultsLoop(def, defaults, o, k + 1, Put(out, key, Get(defaults, key)))
          ELSE IF Returned(e)
               THEN read_with_defaultsLoop(def, defaults, o, k + 1, Put(out, key, e.val))
          ELSE IF ThrewValidationError(e)
               THEN validationError("." \o key \o e.path, o)
               ELSE e

read_with_defaults(def, defaults, o) ==
  IF ~instanceofObject(o) \/ instanceofArray(o) THEN validationError("", o)
  ELSE read_with_defaultsLoop(def, defaults, o, 1, EmptyObj[2])

RECURSIVE objWriteLoop(_, _, _, _)
objWriteLoop(def, r, k, out) ==
  IF k > Len(def) THEN Ok(Obj(out))
  ELSE LET key == def[k][1]
           e == Write(def[k][2], Get(r, key))
       IN IF Returned(e) THEN objWriteLoop(def, r, k + 1, Put(out, key, e.val))
          ELSE IF ThrewValidationError(e)
               THEN validationError("." \o key \o e.path, r)
               ELSE e

\* a write that starts from a copy of the record: const out = {...r}
objWriteCopying(def, r) ==
  IF ~instanceofObject(r) THEN validationError("", r)
  ELSE objWriteLoop(def, r, 1, Spread(r))

objWrite(def, r) ==
  IF ~instanceofObject(r) THEN validationError("", r)
  ELSE objWriteLoop(def, r, 1, EmptyObj[2])

\* a loop that reads every field with its bare portal
RECURSIVE partial_objReadLoopRequired(_, _, _, _)
partial_objReadLoopRequired(def, o, k, out) ==
  IF k > Len(def) THEN Ok(Obj(out))
  ELSE LET key == def[k][1]
           e == Read(def[k][2], Get(o, key))
       IN IF Returned(e) THEN partial_objReadLoopRequired(def, o, k + 1, Put(out, key, e.val))
          ELSE IF ThrewValidationError(e)
               THEN validationError("." \o key \o e.path, o)
               ELSE e

RECURSIVE partial_objReadLoop(_, _, _, _)
partial_objReadLoop(def, o, k, out) ==
  IF k > Len(def) THEN Ok(Obj(out))
  ELSE LET key == def[k][1]
           e == Read(optional(def[k][2]), Get(o, key))
       IN IF Returned(e) THEN partial_objReadLoop(def, o, k + 1, Put(out, key, e.val))
          ELSE IF ThrewValidationError(e)
               THEN validationError("." \o key \o e.path, o)
               ELSE e

partial_objRead(def, o) ==
  IF ~instanceofObject(o) \/ instanceofArray(o) THEN validationError("", o)
  ELSE partial_objReadLoop(def, o, 1, EmptyObj[2])

RECURSIVE partial_objWriteLoop(_, _, _, _)
partial_objWriteLoop(def, r, k, out) ==
  IF k > Len(def) THEN Ok(Obj(out))
  ELSE LET key == def[k][1]
           e == Write(optional(def[k][2]), Get(r, key))
       IN IF Returned(e) THEN partial_objWriteLoop(def, r, k + 1, Put(out, key, e.val))
          ELSE IF ThrewValidationError(e)
               THEN validationError("." \o key \o e.path, r)
               ELSE e

partial_objWrite(def, r) ==
  IF ~instanceofObject(r) \/ instanceofArray(r) THEN validationError("", r)
  ELSE partial_objWriteLoop(def, r, 1, EmptyObj[2])

\* the loop runs over the input's length; def[i] is undefined beyond the
\* declared arity, and calling its read throws a TypeError
RECURSIVE tupleReadLoop(_, _, _, _)
tupleReadLoop(def, o, i, out) ==
  IF ~(i < Len(o[2])) THEN Ok(Arr(out))
  ELSE IF ~(i < Len(def)) THEN TypeError
  ELSE LET e == Read(def[i + 1], o[2][i + 1])
       IN IF Returned(e) THEN tupleReadLoop(def, o, i + 1, Append(out, e.val))
          ELSE IF ThrewValidationError(e)
               THEN validationError("[" \o ToString(i) \o "]" \o e.path, o)
               ELSE e

tupleRead(def, o) ==
  IF instanceofArray(o) THEN tupleReadLoop(def, o, 0, <<>>) ELSE validationError("", o)

RECURSIVE tupleWriteLoop(_, _, _, _)
tupleWriteLoop(def, r, i, out) ==
  IF ~(i < Len(r[2])) THEN Ok(Arr(out))
  ELSE IF ~(i < Len(def)) THEN TypeError
  ELSE LET e == Write(def[i + 1], r[2][i + 1])
       IN IF Returned(e) THEN tupleWriteLoop(def, r, i + 1, Append(out, e.val))
          ELSE IF ThrewValidationError(e)
               THEN validationError("[" \o ToString(i) \o "]" \o e.path, r)
               ELSE e

tupleWrite(def, r) ==
  IF instanceofArray(r) THEN tupleWriteLoop(def, r, 0, <<>>) ELSE validationError("", r)

\* a membership test on the string the input converts to
oneOfReadCoercing(args, o) ==
  IF \E j \in DOMAIN args : args[j][2] = ToStringJS(o) THEN Ok(o) ELSE validationError("", o)

oneOfRead(args, o) ==
  IF indexOf(args, o) # -1 THEN Ok(o) ELSE validationError("", o)

oneOfWrite(args, t) ==
  IF indexOf(args, t) # -1 THEN Ok(t) ELSE validationError("", t)

\* args.filter((v, i) => i%2==0)
variantTypes(args) == [j \in 1..((Len(args) + 1) \div 2) |-> args[2 * j - 1]]

\* args.filter((v, i) => i%2!=0)
variantSerializers(args) == [j \in 1..(Len(args) \div 2) |-> args[2 * j]]

\* a read that spreads the branch's record over the tag: {type: o.type, ...branch}
variantReadBranchOverTag(args, o) ==
  IF looseNull(o) THEN TypeError
  ELSE LET type == Get(o, "type")
           i == indexOf(variantTypes(args), type)
       IN IF i = -1 THEN validationError("", o)
          ELSE LET e == Read(variantSerializers(args)[i + 1], o)
               IN IF Returned(e)
                  THEN Ok(Obj(IF "type" \in DOMAIN Spread(e.val) THEN Spread(e.val)
                              ELSE Put(Spread(e.val), "type", type)))
                  ELSE IF ThrewValidationError(e)
                       THEN validationError(
                              "<" \o CharsToString(ToStringJS(type)) \o ">" \o e.path, o)
                       ELSE e

\* o.type of null or undefined throws a TypeError
variantRead(args, o) ==
  IF looseNull(o) THEN TypeError
  ELSE LET type == Get(o, "type")
           i == indexOf(variantTypes(args), type)
       IN IF i = -1 THEN validationError("", o)
          ELSE LET e == Read(variantSerializers(args)[i + 1], o)
               IN IF Returned(e) THEN Ok(Obj(Put(Spread(e.val), "type", type)))
                  ELSE IF ThrewValidationError(e)
                       THEN validationError(
                              "<" \o CharsToString(ToStringJS(type)) \o ">" \o e.path, o)
                       ELSE e

variantWrite(args, t) ==
  IF looseNull(t) THEN TypeError
  ELSE LET type == Get(t, "type")
           i == indexOf(variantTypes(args), type)
       IN IF i = -1 THEN validationError("", t)
          ELSE LET e == Write(variantSerializers(args)[i + 1], t)
               IN IF Returned(e) THEN Ok(Obj(Put(Spread(e.val), "type", type)))
                  ELSE IF ThrewValidationError(e)
                       THEN validationError(
                              "<" \o CharsToString(ToStringJS(type)) \o ">" \o e.path, t)
                       ELSE e

\* Object.assign({}, ...args.map(_t => _t.read(o))): map calls the
\* constituents in order and the first exception leaves it as thrown
\* a merge in which the earlier constituent wins
RECURSIVE combineReadLoopFirstWins(_, _, _, _)
combineReadLoopFirstWins(args, o, k, out) ==
  IF k > Len(args) THEN Ok(Obj(out))
  ELSE LET e == Read(args[k], o)
       IN IF Returned(e) THEN combineReadLoopFirstWins(args, o, k + 1, Assign(Spread(e.val), out))
          ELSE e

RECURSIVE combineReadLoop(_, _, _, _)
combineReadLoop(args, o, k, out) ==
  IF k > Len(args) THEN Ok(Obj(out))
  ELSE LET e == Read(args[k], o)
       IN IF Returned(e) THEN combineReadLoop(args, o, k + 1, Assign(out, Spread(e.val)))
          ELSE e

combineRead(args, o) == combineReadLoop(args, o, 1, EmptyObj[2])

RECURSIVE combineWriteLoop(_, _, _, _)
combineWriteLoop(args, o, k, out) ==
  IF k > Len(args) THEN Ok(Obj(out))
  ELSE LET e == Write(args[k], o)
       IN IF Returned(e) THEN combineWriteLoop(args, o, k + 1, Assign(out, Spread(e.val)))
          ELSE e

combineWrite(args, o) == combineWriteLoop(args, o, 1, EmptyObj[2])

(***************************************************************************)
(* Versioning wrapper.  A migration is user code; the model describes the  *)
(* ones it uses as data:                                                   *)
(*   <<"wrap", key>>          o => ({key: o})                              *)
(*   <<"rename", from, to>>   o => ({to: o.from})                          *)
(*   <<"isoToSecs", key>>     o => ({key: dateUnixSecs.write(              *)
(*                                         dateIso.read(o.key))})          *)
(* The first is total; the other two are the migrations of the test suite  *)
(* and throw on a payload of the wrong shape.                              *)
(***************************************************************************)
Migrate(m, o) ==
  CASE m[1] = "wrap" -> Ok(Obj(m[2] :> o))
    [] m[1] = "rename" ->
         IF looseNull(o) THEN TypeError ELSE Ok(Obj(m[3] :> Get(o, m[2])))
    [] m[1] = "isoToSecs" ->
         IF looseNull(o) THEN TypeError
         ELSE LET d == dateIsoRead(Get(o, m[2]))
              IN IF Returned(d) THEN Ok(Obj(m[2] :> dateUnixSecsWrite(d.val).val))
                 ELSE d

\* const inner = tuple(int, raw)
inner == tuple(<<int, raw>>)

\* a[i] of an array, undefined beyond its length
At(a, i) == IF i < Len(a[2]) THEN a[2][i + 1] ELSE undefined

\* a loop that runs until the version is the current one: ver != n
notEqualTo(ver, n) == IsFixed(ver) /\ ver[3] # n * Unit

\* ver < args.migrations.length: false when ver is undefined
lessThan(ver, n) ==
  \/ IsFixed(ver) /\ ver[3] < n * Unit
  \/ IsPow(ver) /\ (ver[2] = "negpow" \/ (ver[3] < 0 /\ n >= 1))
  \/ ver = NegInfinity

\* args.migrations[ver](data): an index below 0 or beyond the last migration
\* finds no function to call
migrateStep(migrations, ver, data) ==
  IF ver[3] < 0 \/ (ver[3] \div Unit) + 1 > Len(migrations) THEN TypeError
  ELSE Migrate(migrations[(ver[3] \div Unit) + 1], data)

\* a step that skips a version
incrementByTwo(ver) == Num(ver[3] + 2 * Unit)

\* ver++
increment(ver) == Num(ver[3] + Unit)

RECURSIVE versionedLoop(_, _, _, _)
versionedLoop(schema, migrations, ver, data) ==
  IF lessThan(ver, Len(migrations))
  THEN LET d == migrateStep(migrations, ver, data)
       IN IF Returned(d) THEN versionedLoop(schema, migrations, increment(ver), d.val)
          ELSE d
  ELSE Read(schema, data)

versionedRead(schema, migrations, o_) ==
  LET o == Read(inner, o_)
  IN IF Returned(o)
     THEN versionedLoop(schema, migrations, At(o.val, 0), At(o.val, 1))
     ELSE o

\* a write that tags the payload as version 0
versionedWriteTagZero(schema, migrations, t) ==
  LET w == Write(schema, t)
  IN IF Returned(w) THEN Write(inner, Arr(<<IntNum(0), w.val>>)) ELSE w

\* a write that leaves the version tag out
versionedWriteBare(schema, migrations, t) == Write(schema, t)

versionedWrite(schema, migrations, t) ==
  LET w == Write(schema, t)
  IN IF Returned(w) THEN Write(inner, Arr(<<IntNum(Len(migrations)), w.val>>)) ELSE w

(***************************************************************************)
(* Result portal.                                                          *)
(***************************************************************************)
\* r.ok !== undefined, for a value that is neither null nor undefined
isOk(r) == Get(r, "ok") # undefined

isErr(r) == Get(r, "error") # undefined

resultRead(ok, error, o) ==
  IF ~instanceofObject(o) THEN validationError("object", o)
  ELSE IF Get(o, "error") = undefined
       THEN LET e == Read(ok, Get(o, "ok"))
            IN IF Returned(e) THEN Ok(Obj("ok" :> e.val)) ELSE e
       ELSE LET e == Read(error, Get(o, "error"))
            IN IF Returned(e) THEN Ok(Obj("error" :> e.val)) ELSE e

resultWrite(ok, error, o) ==
  IF looseNull(o) THEN TypeError
  ELSE IF isOk(o)
       THEN LET e == Write(ok, Get(o, "ok"))
            IN IF Returned(e) THEN Ok(Obj("ok" :> e.val)) ELSE e
       ELSE LET e == Write(error, Get(o, "error"))
            IN IF Returned(e) THEN Ok(Obj("error" :> e.val)) ELSE e

(***************************************************************************)
(* portal.read(o) and portal.write(t)                                      *)
(***************************************************************************)
Read(p, o) ==
  CASE p[1] = "str" -> strRead(o)
    [] p[1] = "nothing" -> nothingRead(o)
    [] p[1] = "bool" -> boolRead(o)
    [] p[1] = "int" -> intRead(o)
    [] p[1] = "float" -> floatRead(o)
    [] p[1] = "raw" -> rawRead(o)
    [] p[1] = "uuid" -> uuidRead(o)
    [] p[1] = "dateIso" -> dateIsoRead(o)
    [] p[1] = "dateUnixSecs" -> dateUnixSecsRead(o)
    [] p[1] = "dateUnixMillis" -> dateUnixMillisRead(o)
    [] p[1] = "optional" -> optionalRead(p[2], o)
    [] p[1] = "nullable" -> nullableRead(p[2], o)
    [] p[1] = "array" -> arrayRead(p[2], o)
    [] p[1] = "obj" -> objRead(p[2], o)
    [] p[1] = "partial_obj" -> partial_objRead(p[2], o)
    [] p[1] = "tuple" -> tupleRead(p[2], o)
    [] p[1] = "oneOf" -> oneOfRead(p[2], o)
    [] p[1] = "variant" -> variantRead(p[2], o)
    [] p[1] = "combine" -> combineRead(p[2], o)
    [] p[1] = "versioned" -> versionedRead(p[2], p[3], o)
    [] p[1] = "result" -> resultRead(p[2], p[3], o)

Write(p, t) ==
  CASE p[1] = "str" -> strWrite(t)
    [] p[1] = "nothing" -> nothingWrite(t)
    [] p[1] = "bool" -> boolWrite(t)
    [] p[1] = "int" -> intWrite(t)
    [] p[1] = "float" -> floatWrite(t)
    [] p[1] = "raw" -> rawWrite(t)
    [] p[1] = "uuid" -> uuidWrite(t)
    [] p[1] = "dateIso" -> dateIsoWrite(t)
    [] p[1] = "dateUnixSecs" -> dateUnixSecsWrite(t)
    [] p[1] = "dateUnixMillis" -> dateUnixMillisWrite(t)
    [] p[1] = "optional" -> optionalWrite(p[2], t)
    [] p[1] = "nullable" -> nullableWrite(p[2], t)
    [] p[1] = "array" -> arrayWrite(p[2], t)
    [] p[1] = "obj" -> objWrite(p[2], t)
    [] p[1] = "partial_obj" -> partial_objWrite(p[2], t)
    [] p[1] = "tuple" -> tupleWrite(p[2], t)
    [] p[1] = "oneOf" -> oneOfWrite(p[2], t)
    [] p[1] = "variant" -> variantWrite(p[2], t)
    [] p[1] = "combine" -> combineWrite(p[2], t)
    [] p[1] = "versioned" -> versionedWrite(p[2], p[3], t)
    [] p[1] = "result" -> resultWrite(p[2], p[3], t)

(***************************************************************************)
(* Portals under test: the portals of the test suite, plus the shapes the  *)
(* contracts single out (a tag declared twice, nested containers,          *)
(* migrations that cannot throw).                                          *)
(***************************************************************************)
hi == Str(<<"h", "i">>)

apple == Str(<<"a", "p", "p", "l", "e">>)

orange == Str(<<"o", "r", "a", "n", "g", "e">>)

circle == Str(<<"c", "i", "r", "c", "l", "e">>)

person == Str(<<"p", "e", "r", "s", "o", "n">>)

blah == Str(<<"b", "l", "a", "h">>)

\* "1970-01-01T00:00:01.000Z"
iso1s == Str(<<"1", "9", "7", "0", "-", "0", "1", "-", "0", "1", "T", "0", "0", ":", "0", "0", ":", "0", "1", ".", "0", "0", "0", "Z">>)

\* "123e4567-e89b-12d3-a456-426614174000"
uuid1 == Str(<<"1", "2", "3", "e", "4", "5", "6", "7", "-", "e", "8", "9", "b", "-", "1", "2", "d", "3", "-", "a", "4", "5", "6", "-", "4", "2", "6", "6", "1", "4", "1", "7", "4", "0", "0", "0">>)

\* the string s with the character c at position i (counted from 1)
WithChar(s, i, c) == Str([s[2] EXCEPT ![i] = c])

\* "00000000-0000-0000-0000-000000000000"
nilUuid == Str([i \in 1..36 |-> IF i \in {9, 14, 19, 24} THEN "-" ELSE "0"])

\* uuid1 with other version and variant digits, in upper case, and cut short
UuidLike ==
  {uuid1, nilUuid, WithChar(uuid1, 15, "0"), WithChar(uuid1, 15, "5"), WithChar(uuid1, 15, "6"),
   WithChar(uuid1, 20, "0"), WithChar(uuid1, 20, "B"), WithChar(uuid1, 20, "c"),
   WithChar(uuid1, 20, "7"), WithChar(WithChar(uuid1, 4, "E"), 10, "E"),
   WithChar(uuid1, 1, "g"), WithChar(uuid1, 9, "0"), Str(SubSeq(uuid1[2], 1, 35)),
   Str(Append(uuid1[2], "0"))}

\* 1.5 and -1.5
OneAndAHalf == Num(Unit + Unit \div 2)

MinusOneAndAHalf == Num(-(Unit + Unit \div 2))

\* 1e21: a number of 1e21 or more is printed in exponent notation
OneE21 == Pow10(FALSE, 21)

\* 1e-7: a number below 1e-6 is printed in exponent notation
OneEMinus7 == Pow10(FALSE, -7)

objXArrayInt == obj(<<<<"x", array(int)>>>>)

objXStrYArrayInt == obj(<<<<"x", str>>, <<"y", array(int)>>>>)

partialXStrYArrayInt == partial_obj(<<<<"x", str>>, <<"y", array(int)>>>>)

partialXArrayInt == partial_obj(<<<<"x", array(int)>>>>)

\* a record all of whose fields tolerate an absent value
objXOptionalInt == obj(<<<<"x", optional(int)>>>>)

tupleIntStr == tuple(<<int, str>>)

fruit == oneOf(<<apple, orange>>)

shape == variant(<<circle, obj(<<<<"radius", float>>>>), person, obj(<<<<"name", str>>>>)>>)

\* a branch that declares the field type itself, with a portal that reads and
\* writes it as another value
shapeTyped == variant(<<circle, obj(<<<<"type", nothing>>, <<"radius", float>>>>)>>)

\* the tag circle declared twice
shapeTwice == variant(<<circle, obj(<<<<"radius", float>>>>), circle, obj(<<<<"name", str>>>>)>>)

combined == combine(<<obj(<<<<"x", int>>>>), obj(<<<<"y", str>>, <<"z", bool>>>>)>>)

\* two constituents that both declare x
combinedCollision == combine(<<obj(<<<<"x", float>>>>), obj(<<<<"x", int>>, <<"y", str>>>>)>>)

v1 == versioned(obj(<<<<"x", dateIso>>>>), <<>>)

v2_missing_migration == versioned(obj(<<<<"x", dateUnixSecs>>>>), <<>>)

v2 == versioned(obj(<<<<"x", dateUnixSecs>>>>), <<<<"isoToSecs", "x">>>>)

v3 == versioned(obj(<<<<"myDate", dateUnixSecs>>>>), <<<<"isoToSecs", "x">>, <<"rename", "x", "myDate">>>>)

\* a chain of versions whose migrations are total
w0 == versioned(str, <<>>)

w1 == versioned(obj(<<<<"a", str>>>>), <<<<"wrap", "a">>>>)

w2 == versioned(obj(<<<<"b", obj(<<<<"a", str>>>>)>>>>), <<<<"wrap", "a">>, <<"wrap", "b">>>>)

\* a version 1 whose schema does not give back the text it reads
u1 == versioned(obj(<<<<"a", int>>>>), <<<<"wrap", "a">>>>)

resultStrInt == serializer(str, int)

\* the result of an operation that returns nothing
resultNothingStr == serializer(nothing, str)

Primitives == {str, nothing, bool, int, float, raw, uuid, dateIso, dateUnixSecs, dateUnixMillis}

Modifiers == {optional(str), nullable(str), optional(array(int)), nullable(int)}

Containers ==
  {array(int), array(array(int)), array(shape), objXArrayInt, objXStrYArrayInt,
   partialXStrYArrayInt, partialXArrayInt, objXOptionalInt, tupleIntStr, tuple(<<array(int)>>),
   fruit, shape, shapeTwice, shapeTyped, combined, combinedCollision, obj(<<<<"s", shape>>>>)}

Versioned == {v1, v2_missing_migration, v2, v3, w0, w1, w2, u1}

Portals == Primitives \cup Modifiers \cup Containers \cup Versioned \cup {resultStrInt, resultNothingStr}

\* the next version of a versioned portal: one more migration, a new schema
Successor(p) ==
  CASE p = v1 -> v2
    [] p = v2 -> v3
    [] p = w0 -> w1
    [] p = w1 -> w2
    [] p = u1 -> w2
    [] OTHER -> p

(***************************************************************************)
(* Values handed to read and write: wire values and typed values, well     *)
(* formed and malformed.  Numbers are written through Unit, and dates lie  *)
(* within seconds of the epoch.                                            *)
(***************************************************************************)
\* longest generated list
MaxLen == 2

\* largest version tag on a generated wire value
MaxTag == 3

Atoms ==
  {undefined, null, Bool(TRUE), Bool(FALSE), IntNum(0), IntNum(1), IntNum(-1),
   IntNum(12), OneAndAHalf, MinusOneAndAHalf, NaN, Infinity, OneE21, OneEMinus7,
   Str(<<>>), hi, Str(<<"A", "p", "p", "l", "e">>), orange,
   Str(<<"1", "2">>), Str(<<"1", ".", "5">>), Str(<<"-", "1", ".", "5", "x">>),
   apple, circle, iso1s, Date(1000), Date(2500), InvalidDate} \cup UuidLike

Elements == {IntNum(1), IntNum(12), IntNum(13), Bool(TRUE), hi, null}

Lists ==
  UNION {{Arr([i \in 1..n |-> f[i]]) : f \in [1..n -> Elements]} : n \in 0..MaxLen}

NestedLists ==
  {Arr(<<Arr(<<>>), Arr(<<IntNum(1), null>>)>>), Arr(<<Arr(<<IntNum(1)>>), Arr(<<IntNum(12)>>)>>),
   Arr(<<Arr(<<IntNum(1), Bool(TRUE)>>)>>), Arr(<<IntNum(12), hi, IntNum(1)>>),
   Arr(<<OneAndAHalf, hi>>), Arr(<<apple>>), Arr(<<hi, hi, IntNum(1)>>)}

circleOk == Obj("type" :> circle @@ "radius" :> OneAndAHalf)

circleBad == Obj("type" :> circle @@ "radius" :> Bool(FALSE))

Records ==
  {EmptyObj,
   Obj("x" :> Arr(<<IntNum(1), Bool(TRUE)>>)),
   Obj("x" :> Arr(<<IntNum(1), IntNum(12)>>)),
   Obj("x" :> hi @@ "y" :> Arr(<<IntNum(1), IntNum(12)>>)),
   Obj("y" :> Arr(<<IntNum(1), IntNum(12)>>)),
   Obj("x" :> null @@ "y" :> Arr(<<IntNum(1), IntNum(12)>>)),
   Obj("x" :> hi @@ "y" :> Arr(<<IntNum(1), Bool(TRUE)>>)),
   Obj("x" :> hi @@ "y" :> Arr(<<IntNum(1)>>) @@ "z" :> Bool(TRUE)),
   Obj("x" :> IntNum(123) @@ "y" :> hi @@ "z" :> Bool(FALSE)),
   Obj("x" :> IntNum(123) @@ "y" :> IntNum(1) @@ "z" :> Bool(FALSE)),
   Obj("x" :> Bool(TRUE) @@ "y" :> IntNum(1) @@ "z" :> Bool(FALSE)),
   Obj("x" :> OneAndAHalf @@ "y" :> hi @@ "z" :> Bool(FALSE)),
   circleOk, circleBad,
   Obj("type" :> blah),
   Obj("type" :> person @@ "name" :> hi),
   Obj("type" :> person @@ "name" :> IntNum(1)),
   Obj("type" :> circle @@ "name" :> hi),
   Obj("type" :> circle @@ "radius" :> OneAndAHalf @@ "name" :> hi),
   Obj("s" :> circleOk), Obj("s" :> circleBad), Obj("s" :> null),
   Arr(<<circleOk, circleBad>>), Arr(<<circleOk, Obj("type" :> blah)>>), Arr(<<circleOk>>),
   Obj("ok" :> hi), Obj("error" :> IntNum(1)), Obj("ok" :> IntNum(1)),
   Obj("error" :> hi), Obj("ok" :> hi @@ "error" :> IntNum(1)),
   Obj("x" :> Date(1000)), Obj("x" :> Date(2500)), Obj("x" :> InvalidDate),
   Obj("myDate" :> Date(1000)),
   Obj("a" :> hi), Obj("b" :> Obj("a" :> hi))}

Payloads ==
  {hi, Str(<<"1", "2">>), null, IntNum(1), Obj("x" :> iso1s), Obj("x" :> IntNum(1)), Obj("x" :> hi),
   Obj("myDate" :> IntNum(1)), Obj("a" :> hi), Obj("a" :> IntNum(1)),
   Obj("b" :> Obj("a" :> hi))}

\* [tag, payload] for every tag from -1 to MaxTag, and some malformed wires
Wires ==
  {Arr(<<IntNum(t), d>>) : t \in -1..MaxTag, d \in Payloads}
    \cup {Arr(<<IntNum(0)>>), Arr(<<IntNum(0), hi, hi>>), Arr(<<OneAndAHalf, Obj("a" :> hi)>>)}

Values == Atoms \cup Lists \cup NestedLists \cup Records \cup Wires

(***************************************************************************)
(* Descriptions.  Every portal renders itself as a string: a primitive as  *)
(* a fixed name, a combinator by putting the descriptions of its children  *)
(* into its template.  Two revisions of the templates are kept apart:      *)
(* description is the one of the revision the portals above are taken      *)
(* from, descriptionIndexTs the one of src/index.ts.                       *)
(***************************************************************************)
\* xs.join(sep) of a list of strings
RECURSIVE join(_, _)
join(xs, sep) ==
  IF xs = <<>> THEN ""
  ELSE IF Len(xs) = 1 THEN Head(xs)
  ELSE Head(xs) \o sep \o join(Tail(xs), sep)

\* `${t}` of a tag or a candidate; a key is a string already
Interpolate(t) == CharsToString(ToStringJS(t))

RECURSIVE description(_)
description(p) ==
  CASE p[1] = "versioned" -> "versioned({schema: " \o description(p[2]) \o ", migrations: ...})"
    [] p[1] = "optional" -> "optional(" \o description(p[2]) \o ")"
    [] p[1] = "nullable" -> "nullable(" \o description(p[2]) \o ")"
    [] p[1] = "array" -> "array(" \o description(p[2]) \o ")"
    [] p[1] = "obj" ->
         "obj({" \o join([i \in DOMAIN p[2] |->
                            p[2][i][1] \o ": " \o description(p[2][i][2])], ", ") \o "})"
    [] p[1] = "partial_obj" ->
         "partial_obj({" \o join([i \in DOMAIN p[2] |->
                            p[2][i][1] \o ": " \o description(p[2][i][2])], ", ") \o "})"
    [] p[1] = "tuple" -> "tuple(" \o join([i \in DOMAIN p[2] |-> description(p[2][i])], ", ") \o ")"
    [] p[1] = "oneOf" ->
         "oneOf(" \o join([i \in DOMAIN p[2] |-> "\"" \o Interpolate(p[2][i]) \o "\""], ", ") \o ")"
    [] p[1] = "variant" ->
         "variant(" \o join([i \in DOMAIN variantTypes(p[2]) |->
                               "\"" \o Interpolate(variantTypes(p[2])[i]) \o "\", "
                                 \o description(variantSerializers(p[2])[i])], ", ") \o ")"
    [] p[1] = "combine" -> "combine(" \o join([i \in DOMAIN p[2] |-> description(p[2][i])], ",") \o ")"
    [] p[1] = "result" -> "result(" \o description(p[2]) \o "," \o description(p[3]) \o ")"
    [] OTHER -> p[1]

\* the portals src/index.ts builds: it has no combine
RECURSIVE InIndexTs(_)
InIndexTs(p) ==
  CASE p[1] \in {"versioned", "optional", "nullable", "array"} -> InIndexTs(p[2])
    [] p[1] \in {"obj", "partial_obj"} -> \A i \in DOMAIN p[2] : InIndexTs(p[2][i][2])
    [] p[1] = "tuple" -> \A i \in DOMAIN p[2] : InIndexTs(p[2][i])
    [] p[1] = "variant" ->
         \A i \in DOMAIN variantSerializers(p[2]) : InIndexTs(variantSerializers(p[2])[i])
    [] p[1] = "result" -> InIndexTs(p[2]) /\ InIndexTs(p[3])
    [] p[1] = "combine" -> FALSE
    [] OTHER -> TRUE

RECURSIVE descriptionIndexTs(_)
descriptionIndexTs(p) ==
  CASE p[1] = "versioned" ->
         "[version, " \o descriptionIndexTs(p[2])
           \o (IF Len(p[3]) > 0 THEN " or previous version]" ELSE "]")
    [] p[1] = "dateUnixSecs" -> "Date (seconds since epoch)"
    [] p[1] = "dateUnixMillis" -> "Date (milliseconds since epoch)"
    [] p[1] = "dateIso" -> "Date (ISO)"
    [] p[1] = "str" -> "string"
    [] p[1] = "bool" -> "boolean"
    [] p[1] = "int" -> "integer"
    [] p[1] = "optional" -> "null | " \o descriptionIndexTs(p[2])
    [] p[1] = "nullable" -> "null | " \o descriptionIndexTs(p[2])
    [] p[1] = "array" -> "[" \o descriptionIndexTs(p[2]) \o ",...]"
    [] p[1] = "obj" ->
         "{" \o join([i \in DOMAIN p[2] |->
                        "\"" \o p[2][i][1] \o "\": " \o descriptionIndexTs(p[2][i][2])], ", ") \o "}"
    [] p[1] = "partial_obj" ->
         "{" \o join([i \in DOMAIN p[2] |->
                        "\"" \o p[2][i][1] \o "\"?: " \o descriptionIndexTs(p[2][i][2])], ", ") \o "}"
    [] p[1] = "tuple" -> "[" \o join([i \in DOMAIN p[2] |-> descriptionIndexTs(p[2][i])], ", ") \o "]"
    [] p[1] = "oneOf" -> join([i \in DOMAIN p[2] |-> "\"" \o Interpolate(p[2][i]) \o "\""], " | ")
    [] p[1] = "variant" ->
         join([i \in DOMAIN variantTypes(p[2]) |->
                 "({\"type\": \"" \o Interpolate(variantTypes(p[2])[i]) \o "\"} & "
                   \o descriptionIndexTs(variantSerializers(p[2])[i]) \o ")"], " | ")
    [] p[1] = "result" -> "result(" \o descriptionIndexTs(p[2]) \o "," \o descriptionIndexTs(p[3]) \o ")"
    [] OTHER -> p[1]

(***************************************************************************)
(* The caller.  calls is the sequence of calls made since the last fresh   *)
(* call: a fresh read or write, then reads of what was written and writes  *)
(* of what was read.  The remaining variables step through one             *)
(* versioned.read: its position, the portal and input, the loop's ver and  *)
(* data, the indexes of the migrations applied so far, the payloads handed *)
(* to the schema's read, and the outcome.  While the loop runs another     *)
(* caller may make a call of its own.  The one object the portals share    *)
(* that can change is the module's UUID_REGEX: lastIndex is its lastIndex  *)
(* property.  side is the last call of an operation other than read and    *)
(* write, made when no call sequence is under way.                         *)
(***************************************************************************)
VARIABLES calls, vpc, vportal, vinput, ver, data, applied, schemaInputs, vout, lastIndex, side

vars == <<calls, vpc, vportal, vinput, ver, data, applied, schemaInputs, vout, lastIndex, side>>

\* longest sequence of calls
MaxCalls == 3

\* a match that starts where the last one ended, as exec does for a sticky
\* expression
matchSticky(s, li) ==
  IF li = 0 /\ UUID_REGEX(s) THEN [found |-> TRUE, lastIndex |-> Len(s)]
  ELSE [found |-> FALSE, lastIndex |-> 0]

\* o.match(UUID_REGEX) with the expression's lastIndex at li: the expression
\* is neither global nor sticky, so the match starts at 0 and lastIndex is
\* left as it is
match(s, li) == [found |-> UUID_REGEX(s), lastIndex |-> li]

\* a call by a caller: its outcome, and lastIndex after it.  uuid is the
\* portal that uses the shared expression; no portal of the model nests it.
Run(op, p, v, li) ==
  IF p = uuid /\ typeof(v) = "string"
  THEN [out |-> IF match(v[2], li).found THEN Ok(v) ELSE validationError("", v),
        lastIndex |-> match(v[2], li).lastIndex]
  ELSE [out |-> IF op = "read" THEN Read(p, v) ELSE Write(p, v), lastIndex |-> li]

Call(op, p, v) ==
  [op |-> op, portal |-> p, input |-> v, out |-> Run(op, p, v, lastIndex).out]

Last == calls[Len(calls)]

Idle ==
  /\ vpc' = "idle"
  /\ vportal' = str
  /\ vinput' = undefined
  /\ ver' = undefined
  /\ data' = undefined
  /\ applied' = <<>>
  /\ schemaInputs' = <<>>
  /\ vout' = Ok(undefined)
  /\ side' = <<>>

Init ==
  /\ calls = <<>>
  /\ vpc = "idle"
  /\ vportal = str
  /\ vinput = undefined
  /\ ver = undefined
  /\ data = undefined
  /\ applied = <<>>
  /\ schemaInputs = <<>>
  /\ vout = Ok(undefined)
  /\ lastIndex = 0
  /\ side = <<>>

\* a fresh call is made when no call sequence is under way
Fresh == calls = <<>> /\ vpc = "idle" /\ side = <<>>

\* portal.read(v)
DoRead(p, v) ==
  /\ calls' = <<Call("read", p, v)>>
  /\ lastIndex' = Run("read", p, v, lastIndex).lastIndex
  /\ Idle

\* portal.write(v)
DoWrite(p, v) ==
  /\ calls' = <<Call("write", p, v)>>
  /\ lastIndex' = Run("write", p, v, lastIndex).lastIndex
  /\ Idle

\* portal.read(portal.write(v))
ReadBack ==
  /\ calls # <<>>
  /\ vpc # "loop"
  /\ Len(calls) < MaxCalls
  /\ Last.op = "write"
  /\ Returned(Last.out)
  /\ calls' = Append(calls, Call("read", Last.portal, Last.out.val))
  /\ lastIndex' = Run("read", Last.portal, Last.out.val, lastIndex).lastIndex
  /\ Idle

\* portal.write(portal.read(v))
WriteBack ==
  /\ calls # <<>>
  /\ vpc # "loop"
  /\ Len(calls) < MaxCalls
  /\ Last.op = "read"
  /\ Returned(Last.out)
  /\ calls' = Append(calls, Call("write", Last.portal, Last.out.val))
  /\ lastIndex' = Run("write", Last.portal, Last.out.val, lastIndex).lastIndex
  /\ Idle

\* next.read(portal.write(v)) for the next version of a versioned portal
ReadUpgraded ==
  /\ calls # <<>>
  /\ vpc # "loop"
  /\ Len(calls) < MaxCalls
  /\ Last.op = "write"
  /\ Returned(Last.out)
  /\ Successor(Last.portal) # Last.portal
  /\ calls' = Append(calls, Call("read", Successor(Last.portal), Last.out.val))
  /\ lastIndex' = Run("read", Successor(Last.portal), Last.out.val, lastIndex).lastIndex
  /\ Idle

\* versioned.read: const o = inner.read(o_); var ver = o[0]; var data = o[1]
VBegin(p, v) ==
  /\ calls' = <<>>
  /\ lastIndex' = lastIndex
  /\ side' = <<>>
  /\ vportal' = p
  /\ vinput' = v
  /\ applied' = <<>>
  /\ schemaInputs' = <<>>
  /\ LET o == Read(inner, v)
     IN IF Returned(o)
        THEN /\ vpc' = "loop"
             /\ ver' = At(o.val, 0)
             /\ data' = At(o.val, 1)
             /\ vout' = Ok(undefined)
        ELSE /\ vpc' = "done"
             /\ ver' = undefined
             /\ data' = undefined
             /\ vout' = o

\* one turn of while (ver < args.migrations.length)
VMigrate ==
  /\ vpc = "loop"
  /\ lessThan(ver, Len(vportal[3]))
  /\ LET d == migrateStep(vportal[3], ver, data)
     IN IF Returned(d)
        THEN /\ data' = d.val
             /\ applied' = Append(applied, ver)
             /\ ver' = increment(ver)
             /\ vpc' = "loop"
             /\ vout' = vout
        ELSE /\ vout' = d
             /\ vpc' = "done"
             /\ UNCHANGED <<data, applied, ver>>
  /\ UNCHANGED <<calls, vportal, vinput, schemaInputs, lastIndex, side>>

\* return args.schema.read(data)
VSchema ==
  /\ vpc = "loop"
  /\ ~lessThan(ver, Len(vportal[3]))
  /\ schemaInputs' = Append(schemaInputs, data)
  /\ vout' = Read(vportal[2], data)
  /\ vpc' = "done"
  /\ UNCHANGED <<calls, vportal, vinput, ver, data, applied, lastIndex, side>>

\* another caller makes a call while the loop of the versioned read runs
Interleaved(op, p, v) ==
  /\ vpc = "loop"
  /\ calls = <<>>
  /\ calls' = <<Call(op, p, v)>>
  /\ lastIndex' = Run(op, p, v, lastIndex).lastIndex
  /\ UNCHANGED <<vpc, vportal, vinput, ver, data, applied, schemaInputs, vout, side>>

\* portal.description()
Describe(p) ==
  /\ side' = <<[op |-> "description", portal |-> p, out |-> description(p)]>>
  /\ UNCHANGED <<calls, vpc, vportal, vinput, ver, data, applied, schemaInputs, vout, lastIndex>>

\* typed values given as defaults
Defaults ==
  {Obj("x" :> Str(<<"o", "i">>) @@ "y" :> Arr(<<IntNum(1), IntNum(12)>>)),
   Obj("x" :> Arr(<<IntNum(12)>>))}

\* the records that declare x, or x and y
Defaulted == {objXStrYArrayInt, objXArrayInt, objXOptionalInt}

\* inputs of a read with defaults: records that have every key, some keys
\* or none, and values that are no record
Sparse == Records \cup {Obj("x" :> hi), null, Arr(<<hi>>), hi}

\* portal.read_with_defaults(d, v)
ReadWithDefaults(p, d, v) ==
  /\ side' = <<[op |-> "read_with_defaults", portal |-> p, defaults |-> d, input |-> v,
               out |-> read_with_defaults(p[2], d, v)]>>
  /\ UNCHANGED <<calls, vpc, vportal, vinput, ver, data, applied, schemaInputs, vout, lastIndex>>

\* the caller drops the results and starts over
Reset ==
  /\ ~Fresh
  /\ vpc # "loop"
  /\ calls' = <<>>
  /\ lastIndex' = lastIndex
  /\ Idle

Next ==
  \/ Fresh /\ \E p \in Portals, v \in Values : DoRead(p, v)
  \/ Fresh /\ \E p \in Portals, v \in Values : DoWrite(p, v)
  \/ ReadBack
  \/ WriteBack
  \/ ReadUpgraded
  \/ Fresh /\ \E p \in Versioned, v \in Values : VBegin(p, v)
  \/ VMigrate
  \/ VSchema
  \/ Fresh /\ \E p \in Portals : Describe(p)
  \/ Fresh /\ \E p \in Defaulted, d \in Defaults, v \in Sparse : ReadWithDefaults(p, d, v)
  \/ \E op \in {"read", "write"}, p \in {vportal, uuid}, v \in {vinput, uuid1} : Interleaved(op, p, v)
  \/ Reset

Spec == Init /\ [][Next]_vars

\* the stepped read ends with the outcome of versioned.read
SteppedReadAgrees == vpc = "done" => vout = Read(vportal, vinput)

TypeOK ==
  /\ Len(calls) <= MaxCalls
  /\ vpc \in {"idle", "loop", "done"}
  /\ lastIndex \in 0..36
  /\ Len(side) <= 1

(***************************************************************************)
(* Round trips.                                                            *)
(***************************************************************************)
\* expect(a).toEqual(b): recursive equality that ignores properties whose
\* value is undefined
RECURSIVE Strip(_)
Strip(v) ==
  CASE v[1] = "array" -> Arr([i \in DOMAIN v[2] |-> Strip(v[2][i])])
    [] v[1] = "object" ->
         Obj([k \in {x \in DOMAIN v[2] : v[2][x] # undefined} |-> Strip(v[2][k])])
    [] OTHER -> v

toEqual(a, b) == Strip(a) = Strip(b)

\* the portals built from the primitive, modifier and container combinators
CorePortals == Primitives \cup Modifiers \cup Containers

RECURSIVE UsesUnixSecs(_)
UsesUnixSecs(p) ==
  CASE p[1] = "dateUnixSecs" -> TRUE
    [] p[1] \in {"optional", "nullable", "array"} -> UsesUnixSecs(p[2])
    [] p[1] \in {"obj", "partial_obj"} -> \E k \in DOMAIN p[2] : UsesUnixSecs(p[2][k][2])
    [] p[1] \in {"tuple", "combine"} -> \E k \in DOMAIN p[2] : UsesUnixSecs(p[2][k])
    [] p[1] = "variant" ->
         \E k \in DOMAIN variantSerializers(p[2]) : UsesUnixSecs(variantSerializers(p[2])[k])
    [] OTHER -> FALSE

RECURSIVE WholeSeconds(_)
WholeSeconds(v) ==
  CASE v[1] = "date" -> v[2] = "ok" /\ v[3] % 1000 = 0
    [] v[1] = "array" -> \A i \in DOMAIN v[2] : WholeSeconds(v[2][i])
    [] v[1] = "object" -> \A k \in DOMAIN v[2] : WholeSeconds(v[2][k])
    [] OTHER -> TRUE

\* calls k and k+1 are P.write(v) and P.read of its result
IsWriteThenRead(k) ==
  /\ k + 1 <= Len(calls)
  /\ calls[k].op = "write"
  /\ calls[k + 1].op = "read"
  /\ calls[k + 1].portal = calls[k].portal
  /\ Returned(calls[k].out)

Outcome(op, p, v) == IF op = "read" THEN Read(p, v) ELSE Write(p, v)

Min(a, b) == IF a < b THEN a ELSE b

\* the containers that locate a failure: list, tuple, record, partial record, union
Locating == {"array", "tuple", "obj", "partial_obj", "variant"}

\* the children a locating container hands to its element portals, in the
\* order it visits them, each with the container's locator fragment
Children(p, op, v) ==
  CASE p[1] = "array" /\ instanceofArray(v) ->
         [i \in 1..Len(v[2]) |->
            [frag |-> "[" \o ToString(i - 1) \o "]", portal |-> p[2], input |-> v[2][i]]]
    [] p[1] = "tuple" /\ instanceofArray(v) ->
         [i \in 1..Min(Len(v[2]), Len(p[2])) |->
            [frag |-> "[" \o ToString(i - 1) \o "]", portal |-> p[2][i], input |-> v[2][i]]]
    [] p[1] = "obj" /\ instanceofObject(v) /\ (op = "write" \/ ~instanceofArray(v)) ->
         [k \in 1..Len(p[2]) |->
            [frag |-> "." \o p[2][k][1], portal |-> p[2][k][2], input |-> Get(v, p[2][k][1])]]
    [] p[1] = "partial_obj" /\ instanceofObject(v) /\ ~instanceofArray(v) ->
         [k \in 1..Len(p[2]) |->
            [frag |-> "." \o p[2][k][1], portal |-> optional(p[2][k][2]),
             input |-> Get(v, p[2][k][1])]]
    [] p[1] = "variant" /\ ~looseNull(v) /\ indexOf(variantTypes(p[2]), Get(v, "type")) # -1 ->
         <<[frag |-> "<" \o CharsToString(Get(v, "type")[2]) \o ">",
            portal |-> variantSerializers(p[2])[indexOf(variantTypes(p[2]), Get(v, "type")) + 1],
            input |-> v]>>
    [] OTHER -> <<>>

\* the first child that fails, 0 when every child succeeds
FirstFailure(cs, op) ==
  IF \E j \in DOMAIN cs : ~Returned(Outcome(op, cs[j].portal, cs[j].input))
  THEN CHOOSE j \in DOMAIN cs :
         /\ ~Returned(Outcome(op, cs[j].portal, cs[j].input))
         /\ \A i \in 1..(j - 1) : Returned(Outcome(op, cs[i].portal, cs[i].input))
  ELSE 0

FailingChild(p, op, v) == Children(p, op, v)[FirstFailure(Children(p, op, v), op)]

\* a child of the container fails with a ValidationError
ChildFails(p, op, v) ==
  /\ FirstFailure(Children(p, op, v), op) # 0
  /\ ThrewValidationError(Outcome(op, FailingChild(p, op, v).portal, FailingChild(p, op, v).input))

\* the locator fragments from p down to the leaf that fails
RECURSIVE LeafPath(_, _, _)
LeafPath(p, op, v) ==
  IF p[1] \in Locating /\ ChildFails(p, op, v)
  THEN FailingChild(p, op, v).frag
         \o LeafPath(FailingChild(p, op, v).portal, op, FailingChild(p, op, v).input)
  ELSE IF p[1] \in {"optional", "nullable"} /\ ~looseNull(v) THEN LeafPath(p[2], op, v)
  ELSE ""

\* C2: when a child read or write fails inside array, tuple, obj, partial_obj
\* or variant, the container raises a ValidationError whose path is its own
\* locator fragment followed by the child's path, so that the final path lists
\* the fragments from the outermost container down to the failing leaf.
C2_PathIsFragmentThenChildPath ==
  \A k \in 1..Len(calls) :
    (calls[k].portal[1] \in Locating /\ ChildFails(calls[k].portal, calls[k].op, calls[k].input))
    => (/\ ThrewValidationError(calls[k].out)
        /\ calls[k].out.path =
             FailingChild(calls[k].portal, calls[k].op, calls[k].input).frag
               \o Outcome(calls[k].op,
                          FailingChild(calls[k].portal, calls[k].op, calls[k].input).portal,
                          FailingChild(calls[k].portal, calls[k].op, calls[k].input).input).path
        /\ calls[k].out.path = LeafPath(calls[k].portal, calls[k].op, calls[k].input))

\* obj({x: array(int)}).write({x: [1, true]}) has failed with path .x[1]
C2_Witness ==
  /\ Len(calls) = 1
  /\ calls[1].op = "write"
  /\ calls[1].portal = objXArrayInt
  /\ calls[1].input = Obj("x" :> Arr(<<IntNum(1), Bool(TRUE)>>))
  /\ ThrewValidationError(calls[1].out)
  /\ calls[1].out.path = ".x[1]"

\* C3: every ValidationError that escapes a top-level read or write call on
\* any portal carries as its got value the complete input passed to that call.
C3_GotIsTheWholeInput ==
  \A k \in 1..Len(calls) :
    ThrewValidationError(calls[k].out) => calls[k].out.got = calls[k].input

\* every migration of the portal is total
TotalMigrations(p) ==
  p[1] = "versioned" => \A i \in DOMAIN p[3] : p[3][i][1] = "wrap"

\* C4: every read or write call that fails, on any portal and for any input
\* value, fails by raising a ValidationError, provided the migrations do not
\* throw.
C4_OnlyValidationErrors ==
  \A k \in 1..Len(calls) :
    (TotalMigrations(calls[k].portal) /\ ~Returned(calls[k].out))
    => ThrewValidationError(calls[k].out)

(***************************************************************************)
(* Versioning.                                                             *)
(***************************************************************************)
\* C5: for every versioned portal with N migrations and every value v
\* accepted by the schema's write, write(v) returns exactly the two-element
\* list [N, schema.write(v)], also for a value obtained by reading an
\* older-version wire value.
C5_WritesLatestVersion ==
  \A k \in 1..Len(calls) :
    (/\ calls[k].op = "write"
     /\ calls[k].portal \in Versioned
     /\ Returned(Write(calls[k].portal[2], calls[k].input)))
    => calls[k].out =
         Ok(Arr(<<IntNum(Len(calls[k].portal[3])),
                  Write(calls[k].portal[2], calls[k].input).val>>))

\* v3 has read a version 0 wire value and written the result with tag 2
C5_Witness ==
  /\ Len(calls) = 2
  /\ calls[1].op = "read"
  /\ calls[1].portal = v3
  /\ calls[1].input = Arr(<<IntNum(0), Obj("x" :> iso1s)>>)
  /\ calls[2].op = "write"
  /\ Returned(calls[2].out)
  /\ calls[2].out.val = Arr(<<IntNum(2), Obj("myDate" :> IntNum(1))>>)

\* the version tag of a wire value
TagOf(w) == w[2][1][3] \div Unit

\* w is [v, d] with an integer tag 0 <= v <= N
WellTagged(p, w) ==
  /\ instanceofArray(w)
  /\ Len(w[2]) = 2
  /\ IsFixed(w[2][1])
  /\ w[2][1][3] % Unit = 0
  /\ TagOf(w) \in 0..Len(p[3])

\* d after the n migrations from index i on, each applied to the output of
\* the previous one
RECURSIVE Migrated(_, _, _, _)
Migrated(migrations, i, n, d) ==
  IF n = 0 THEN d
  ELSE Migrated(migrations, i + 1, n - 1, Migrate(migrations[i + 1], d).val)

\* C6: versioned.read of [v, d] with 0 <= v <= N applies exactly the
\* migrations v, v+1, ..., N-1, each once and in ascending order, each to the
\* output of the previous one, and only after the last of them calls the
\* schema's read, once, on the final payload; with v = N no migration is
\* applied and d itself is handed to the schema's read.  A migration that
\* throws ends the read there.
C6_MigrationsInOrderThenSchema ==
  (vpc # "idle" /\ WellTagged(vportal, vinput))
  => (/\ applied = [i \in 1..Len(applied) |-> IntNum(TagOf(vinput) + i - 1)]
      /\ TagOf(vinput) + Len(applied) <= Len(vportal[3])
      /\ data = Migrated(vportal[3], TagOf(vinput), Len(applied), vinput[2][2])
      /\ Len(schemaInputs) <= 1
      /\ (schemaInputs # <<>> =>
            /\ TagOf(vinput) + Len(applied) = Len(vportal[3])
            /\ schemaInputs = <<data>>
            /\ vpc = "done")
      /\ ((vpc = "done" /\ schemaInputs = <<>>) =>
            /\ TagOf(vinput) + Len(applied) < Len(vportal[3])
            /\ ~Returned(Migrate(vportal[3][TagOf(vinput) + Len(applied) + 1], data))))

\* v3 has read a version 0 wire value: migrations 0 and 1, then the schema
C6_Witness ==
  /\ vpc = "done"
  /\ vportal = v3
  /\ vinput = Arr(<<IntNum(0), Obj("x" :> iso1s)>>)
  /\ applied = <<IntNum(0), IntNum(1)>>
  /\ schemaInputs = <<Obj("myDate" :> IntNum(1))>>
  /\ vout = Ok(Obj("myDate" :> Date(1000)))

\* the schema of p, a portal with one migration, gives back the output of
\* that migration on d when it reads and writes it
RoundTripsMigrated(p, d) ==
  /\ Returned(Migrate(p[3][1], d))
  /\ Returned(Read(p[2], Migrate(p[3][1], d).val))
  /\ Write(p[2], Read(p[2], Migrate(p[3][1], d).val).val) = Ok(Migrate(p[3][1], d).val)

\* C7: for a wire value w written at version 0, reading w through the portal
\* with migrations [m0], writing the result with that portal and reading that
\* through the portal with migrations [m0, m1] gives the same as reading w
\* directly through the portal with migrations [m0, m1], whenever the
\* intermediate schema round-trips the output of m0.
C7_StepwiseEqualsDirect ==
  (/\ Len(calls) >= 3
   /\ calls[1].op = "read"
   /\ calls[1].portal \in Versioned
   /\ Len(calls[1].portal[3]) = 1
   /\ WellTagged(calls[1].portal, calls[1].input)
   /\ TagOf(calls[1].input) = 0
   /\ calls[2].op = "write"
   /\ calls[2].portal = calls[1].portal
   /\ calls[3].op = "read"
   /\ calls[3].portal = Successor(calls[1].portal)
   /\ calls[3].portal # calls[1].portal
   /\ RoundTripsMigrated(calls[1].portal, calls[1].input[2][2]))
  => calls[3].out = Read(calls[3].portal, calls[1].input)

\* the version 0 wire value read by v2, written by v2 and read by v3
C7_Witness ==
  /\ Len(calls) = 3
  /\ calls[1].portal = v2
  /\ calls[1].input = Arr(<<IntNum(0), Obj("x" :> iso1s)>>)
  /\ calls[2].out = Ok(Arr(<<IntNum(1), Obj("x" :> IntNum(1))>>))
  /\ calls[3].portal = v3
  /\ calls[3].out = Ok(Obj("myDate" :> Date(1000)))

(***************************************************************************)
(* Unions and combinations.                                                *)
(***************************************************************************)
\* the positions of the declared tags equal to the type field of v
Matching(args, v) ==
  {j \in DOMAIN variantTypes(args) : variantTypes(args)[j] = Get(v, "type")}

\* the first of them in declaration order
FirstMatch(args, v) ==
  CHOOSE j \in Matching(args, v) : \A i \in Matching(args, v) : j <= i

\* what the union makes of the outcome b of its branch on v
Dispatched(v, b) ==
  IF Returned(b) THEN Ok(Obj(Put(Spread(b.val), "type", Get(v, "type"))))
  ELSE IF ThrewValidationError(b)
       THEN validationError("<" \o CharsToString(Get(v, "type")[2]) \o ">" \o b.path, v)
       ELSE b

\* C8: variant read and write dispatch on the input's type field only, to the
\* branch of the first declared tag equal to it (also when a tag is declared
\* twice); with no matching tag they raise a ValidationError with the empty
\* path and the whole input as got; a failure of the branch is raised with
\* <tag> before the branch's path; on success the result is the branch's
\* record with the type field re-attached.
C8_VariantDispatch ==
  \A k \in 1..Len(calls) :
    calls[k].portal[1] = "variant"
    => calls[k].out =
         IF Matching(calls[k].portal[2], calls[k].input) = {}
         THEN validationError("", calls[k].input)
         ELSE Dispatched(calls[k].input,
                Outcome(calls[k].op,
                        variantSerializers(calls[k].portal[2])
                          [FirstMatch(calls[k].portal[2], calls[k].input)],
                        calls[k].input))

\* the constituents of a combination, each handed the whole input
Constituents(p, v) == [k \in 1..Len(p[2]) |-> [frag |-> "", portal |-> p[2][k], input |-> v]]

FailingConstituent(p, op, v) == Constituents(p, v)[FirstFailure(Constituents(p, v), op)]

\* a constituent of the combination fails with a ValidationError
ConstituentFails(p, op, v) ==
  /\ FirstFailure(Constituents(p, v), op) # 0
  /\ ThrewValidationError(Outcome(op, FailingConstituent(p, op, v).portal, v))

\* C9 as stated: no container passes the error of a child through unchanged;
\* array, tuple, obj, partial_obj, variant and combine all raise an error whose
\* path is the child's path with at least one locator fragment before it.
C9_EveryContainerPrefixes ==
  \A k \in 1..Len(calls) :
    /\ (calls[k].portal[1] \in Locating
        /\ ChildFails(calls[k].portal, calls[k].op, calls[k].input))
       => (/\ ThrewValidationError(calls[k].out)
           /\ calls[k].out.path #
                Outcome(calls[k].op,
                        FailingChild(calls[k].portal, calls[k].op, calls[k].input).portal,
                        FailingChild(calls[k].portal, calls[k].op, calls[k].input).input).path)
    /\ (calls[k].portal[1] = "combine"
        /\ ConstituentFails(calls[k].portal, calls[k].op, calls[k].input))
       => (/\ ThrewValidationError(calls[k].out)
           /\ calls[k].out.path #
                Outcome(calls[k].op,
                        FailingConstituent(calls[k].portal, calls[k].op, calls[k].input).portal,
                        calls[k].input).path)

\* C9: array, tuple, obj, partial_obj and variant never pass the error of a
\* child through unchanged: the error they raise has the child's path with
\* their one locator fragment before it and their own input as got; combine
\* raises the error of its first failing constituent as it is, with the same
\* path and the same got.
C9_LocatingContainersPrefixCombinePassesOn ==
  \A k \in 1..Len(calls) :
    /\ (calls[k].portal[1] \in Locating
        /\ ChildFails(calls[k].portal, calls[k].op, calls[k].input))
       => (/\ calls[k].out # Outcome(calls[k].op,
                        FailingChild(calls[k].portal, calls[k].op, calls[k].input).portal,
                        FailingChild(calls[k].portal, calls[k].op, calls[k].input).input)
           /\ calls[k].out =
                validationError(
                  FailingChild(calls[k].portal, calls[k].op, calls[k].input).frag
                    \o Outcome(calls[k].op,
                         FailingChild(calls[k].portal, calls[k].op, calls[k].input).portal,
                         FailingChild(calls[k].portal, calls[k].op, calls[k].input).input).path,
                  calls[k].input))
    /\ (calls[k].portal[1] = "combine"
        /\ ConstituentFails(calls[k].portal, calls[k].op, calls[k].input))
       => calls[k].out =
            Outcome(calls[k].op,
                    FailingConstituent(calls[k].portal, calls[k].op, calls[k].input).portal,
                    calls[k].input)

\* combine(obj({x: int}), obj({y: str, z: bool})).read({x: 12, y: 1, z: true})
\* has failed with the path .y of its second constituent
C9_Witness ==
  /\ Len(calls) = 1
  /\ calls[1].op = "read"
  /\ calls[1].portal = combined
  /\ Get(calls[1].input, "y") = IntNum(1)
  /\ ThrewValidationError(calls[1].out)
  /\ calls[1].out.path = ".y"
  /\ calls[1].out = Read(combined[2][2], calls[1].input)

(***************************************************************************)
(* Rejection.                                                              *)
(***************************************************************************)
IsRecord(v) == instanceofObject(v) /\ ~instanceofArray(v)

\* C10: str and bool read and write return their input unchanged when it has
\* exactly the right type and raise a ValidationError otherwise; array and
\* tuple read and write raise a ValidationError unless the input is a list;
\* obj and partial_obj read raise a ValidationError unless the input is a
\* record and not a list; int.write and float.write raise a ValidationError
\* on anything that is not a number.
C10_RejectionLaw ==
  \A k \in 1..Len(calls) :
    /\ calls[k].portal = str
       => calls[k].out = IF typeof(calls[k].input) = "string"
                         THEN Ok(calls[k].input)
                         ELSE validationError("", calls[k].input)
    /\ calls[k].portal = bool
       => calls[k].out = IF typeof(calls[k].input) = "boolean"
                         THEN Ok(calls[k].input)
                         ELSE validationError("", calls[k].input)
    /\ (calls[k].portal[1] \in {"array", "tuple"} /\ ~instanceofArray(calls[k].input))
       => calls[k].out = validationError("", calls[k].input)
    /\ (calls[k].portal[1] \in {"obj", "partial_obj"}
        /\ calls[k].op = "read"
        /\ ~IsRecord(calls[k].input))
       => calls[k].out = validationError("", calls[k].input)
    /\ (calls[k].portal \in {int, float}
        /\ calls[k].op = "write"
        /\ typeof(calls[k].input) # "number")
       => calls[k].out = validationError("", calls[k].input)

\* str.write(12) has been rejected
C10_Witness ==
  /\ Len(calls) = 1
  /\ calls[1].op = "write"
  /\ calls[1].portal = str
  /\ calls[1].input = IntNum(12)
  /\ calls[1].out = validationError("", IntNum(12))

(***************************************************************************)
(* Records.                                                                *)
(***************************************************************************)
\* C11: obj(fields).write fails with a ValidationError whenever the typed
\* value is not a mapping-like record, in particular for every list and every
\* value that is not an object, whatever the declared fields are.
C11_ObjWriteRejectsListsAndNonObjects ==
  \A k \in 1..Len(calls) :
    (/\ calls[k].portal[1] = "obj"
     /\ calls[k].op = "write"
     /\ (instanceofArray(calls[k].input) \/ ~instanceofObject(calls[k].input)))
    => ThrewValidationError(calls[k].out)

\* the key is missing or null in v
Absent(v, key) == looseNull(Get(v, key))

\* out is what a partial record makes of v when no absent key counts: a
\* result holding slot for every absent key, or the failure of a key that is
\* present
SkipsAbsentKeys(op, def, v, out, slot) ==
  /\ Returned(out)
     => \A j \in DOMAIN def : Absent(v, def[j][1]) => Get(out.val, def[j][1]) = slot
  /\ ~Returned(out)
     => \E j \in DOMAIN def :
          /\ ~Absent(v, def[j][1])
          /\ ThrewValidationError(Outcome(op, def[j][2], Get(v, def[j][1])))
          /\ out = validationError(
                     "." \o def[j][1] \o Outcome(op, def[j][2], Get(v, def[j][1])).path, v)

\* a portal that is not wrapped and does not take whatever it is given
BareRequired(p) == p[1] \notin {"optional", "nullable", "raw", "nothing"}

\* C12: for every partial_obj portal and every keyed-mapping input, a declared
\* key that is missing or null reads as the absent value and never causes a
\* failure, and an absent field of the typed value is written as a null slot
\* without failure; under obj a missing key whose portal is a bare required
\* portal such as str makes the read fail.
C12_PartialObjToleratesAbsentKeys ==
  \A k \in 1..Len(calls) :
    /\ (calls[k].portal[1] = "partial_obj" /\ IsRecord(calls[k].input))
       => SkipsAbsentKeys(calls[k].op, calls[k].portal[2], calls[k].input, calls[k].out,
                          IF calls[k].op = "read" THEN undefined ELSE null)
    /\ (/\ calls[k].portal[1] = "obj"
        /\ calls[k].op = "read"
        /\ IsRecord(calls[k].input)
        /\ \E j \in DOMAIN calls[k].portal[2] :
             /\ BareRequired(calls[k].portal[2][j][2])
             /\ Get(calls[k].input, calls[k].portal[2][j][1]) = undefined)
       => ~Returned(calls[k].out)

\* partial_obj({x: str, y: array(int)}) has written {y: [1, 12]} with a null
\* slot for x and read it back with x absent
C12_Witness ==
  /\ Len(calls) = 2
  /\ calls[1].op = "write"
  /\ calls[1].portal = partialXStrYArrayInt
  /\ calls[1].input = Obj("y" :> Arr(<<IntNum(1), IntNum(12)>>))
  /\ calls[1].out = Ok(Obj("x" :> null @@ "y" :> Arr(<<IntNum(1), IntNum(12)>>)))
  /\ calls[2].op = "read"
  /\ calls[2].out = Ok(Obj("x" :> undefined @@ "y" :> Arr(<<IntNum(1), IntNum(12)>>)))
  /\ ThrewValidationError(Read(objXStrYArrayInt, calls[1].input))

\* the keys the constituents of a combination declare
DeclaredKeys(p) == UNION {{p[2][j][2][i][1] : i \in DOMAIN p[2][j][2]} : j \in DOMAIN p[2]}

\* the last constituent that declares the key
LastDeclaring(p, key) ==
  CHOOSE j \in DOMAIN p[2] :
    /\ \E i \in DOMAIN p[2][j][2] : p[2][j][2][i][1] = key
    /\ \A h \in (j + 1)..Len(p[2]) : \A i \in DOMAIN p[2][h][2] : p[2][h][2][i][1] # key

\* the results of the constituents on v merged, a later one over an earlier one
Merged(p, op, v) ==
  [key \in DeclaredKeys(p) |-> Get(Outcome(op, p[2][LastDeclaring(p, key)], v).val, key)]

\* C13: combine(o1..on).read applies every constituent's read to the same
\* input and merges the results: the fields of the result are the union of
\* the constituents' fields and on a key collision the value of the later
\* constituent wins; write merges the constituents' write outputs in the same
\* way; read or write fails with a ValidationError as soon as any constituent
\* fails on the shared input.
C13_CombineMergesLaterWins ==
  \A k \in 1..Len(calls) :
    calls[k].portal[1] = "combine"
    => IF FirstFailure(Constituents(calls[k].portal, calls[k].input), calls[k].op) = 0
       THEN /\ Returned(calls[k].out)
            /\ DOMAIN calls[k].out.val[2] = DeclaredKeys(calls[k].portal)
            /\ calls[k].out.val = Obj(Merged(calls[k].portal, calls[k].op, calls[k].input))
       ELSE ThrewValidationError(calls[k].out)

\* combine(obj({x: float}), obj({x: int, y: str})).read({x: 1.5, y: 'hi',
\* z: false}) has returned the x of the second constituent
C13_Witness ==
  /\ Len(calls) = 1
  /\ calls[1].op = "read"
  /\ calls[1].portal = combinedCollision
  /\ calls[1].input = Obj("x" :> OneAndAHalf @@ "y" :> hi @@ "z" :> Bool(FALSE))
  /\ Read(combinedCollision[2][1], calls[1].input) = Ok(Obj("x" :> OneAndAHalf))
  /\ calls[1].out = Ok(Obj("x" :> IntNum(1) @@ "y" :> hi))

(***************************************************************************)
(* Numbers, identifiers, wrappers, enumerations.                           *)
(***************************************************************************)
\* C14: int.read returns the input number truncated toward zero and fails
\* with a ValidationError iff the parse yields not-a-number; int.write fails
\* with a ValidationError unless the value is a finite number and otherwise
\* returns it truncated toward zero, so every value int.write returns is an
\* integer.
C14_IntTruncates ==
  \A k \in 1..Len(calls) :
    calls[k].portal = int
    => IF calls[k].op = "read"
       THEN /\ isFinite(calls[k].input) => calls[k].out = Ok(MathTrunc(calls[k].input))
            /\ ~Returned(calls[k].out)
               <=> (isNaN(parseInt(calls[k].input))
                    /\ calls[k].out = validationError("", calls[k].input))
       ELSE IF isFinite(calls[k].input)
            THEN /\ calls[k].out = Ok(MathTrunc(calls[k].input))
                 /\ (IsFixed(calls[k].out.val) => calls[k].out.val[3] % Unit = 0)
            ELSE calls[k].out = validationError("", calls[k].input)

HexChars ==
  {"0", "1", "2", "3", "4", "5", "6", "7", "8", "9",
   "a", "b", "c", "d", "e", "f", "A", "B", "C", "D", "E", "F"}

\* the 8-4-4-4-12 hexadecimal form
CanonicalForm(s) ==
  /\ Len(s) = 36
  /\ \A i \in 1..36 : IF i \in {9, 14, 19, 24} THEN s[i] = "-" ELSE s[i] \in HexChars

\* C15: uuid.read and uuid.write accept an input iff it is a string of the
\* 8-4-4-4-12 hexadecimal form whose version nibble (first digit of the third
\* group) is in 1..5 and whose variant nibble (first digit of the fourth
\* group) is one of 8, 9, a, b in either case; every other input fails with
\* a ValidationError, and an accepted string is returned unchanged.
C15_UuidVersionAndVariant ==
  \A k \in 1..Len(calls) :
    calls[k].portal = uuid
    => calls[k].out =
         IF /\ typeof(calls[k].input) = "string"
            /\ CanonicalForm(calls[k].input[2])
            /\ calls[k].input[2][15] \in {"1", "2", "3", "4", "5"}
            /\ calls[k].input[2][20] \in {"8", "9", "a", "b", "A", "B"}
         THEN Ok(calls[k].input)
         ELSE validationError("", calls[k].input)

\* C16: optional(p).read returns undefined for a missing or null input and
\* otherwise exactly p.read(input); optional(p).write returns null for an
\* absent value and otherwise exactly p.write(value); the wrapper never raises
\* by itself, so every failure of optional(p) is the failure of p on the same
\* input.  nullable(p) is the same except that its read returns null for a
\* missing or null input.
C16_OptionalAndNullableDelegate ==
  \A k \in 1..Len(calls) :
    calls[k].portal[1] \in {"optional", "nullable"}
    => /\ looseNull(calls[k].input)
          => calls[k].out =
               Ok(IF calls[k].op = "read" /\ calls[k].portal[1] = "optional"
                  THEN undefined ELSE null)
       /\ ~looseNull(calls[k].input)
          => calls[k].out = Outcome(calls[k].op, calls[k].portal[2], calls[k].input)
       /\ ~Returned(calls[k].out)
          => /\ ~looseNull(calls[k].input)
             /\ ~Returned(Outcome(calls[k].op, calls[k].portal[2], calls[k].input))

\* nullable(str) has written undefined as null and read it back as null
C16_Witness ==
  /\ Len(calls) = 2
  /\ calls[1].op = "write"
  /\ calls[1].portal = nullable(str)
  /\ calls[1].input = undefined
  /\ calls[1].out = Ok(null)
  /\ calls[2].op = "read"
  /\ calls[2].out = Ok(null)

\* C17: oneOf(c1..cn).read succeeds iff the input is a string exactly equal
\* to one of the declared candidates, with no case-folding or coercion, and
\* then returns the input unchanged; every other input fails with a
\* ValidationError; write performs the identical membership check.
C17_OneOfIsClosed ==
  \A k \in 1..Len(calls) :
    calls[k].portal[1] = "oneOf"
    => calls[k].out =
         IF /\ typeof(calls[k].input) = "string"
            /\ \E j \in DOMAIN calls[k].portal[2] : calls[k].portal[2][j] = calls[k].input
         THEN Ok(calls[k].input)
         ELSE validationError("", calls[k].input)

\* oneOf('apple', 'orange').read(['apple']) has been rejected
C17_Witness ==
  /\ Len(calls) = 1
  /\ calls[1].op = "read"
  /\ calls[1].portal = fruit
  /\ calls[1].input = Arr(<<apple>>)
  /\ calls[1].out = validationError("", Arr(<<apple>>))
  /\ Read(fruit, orange) = Ok(orange)
  /\ ~Returned(Read(fruit, Str(<<"A", "p", "p", "l", "e">>)))

(***************************************************************************)
(* Result.                                                                 *)
(***************************************************************************)
\* the value has a field of this name
Holds(v, key) == v[1] = "object" /\ key \in DOMAIN v[2]

\* the outcome e of a branch under the key of the branch
Under(key, e) == IF Returned(e) THEN Ok(Obj(key :> e.val)) ELSE e

\* C18: the read of the Result serializer delegates the ok key to the
\* ok-portal when the input lacks an error key and otherwise the error key to
\* the error-portal, and returns a value with exactly one of the keys ok and
\* error; write goes by the field present in the typed value: a value holding
\* an ok field is written as {ok: okPortal.write(payload)} and a value holding
\* an error field as {error: errorPortal.write(payload)}, whatever the payload.
C18_ResultDelegatesByKey ==
  \A k \in 1..Len(calls) :
    calls[k].portal[1] = "result"
    => /\ (calls[k].op = "read" /\ instanceofObject(calls[k].input))
          => calls[k].out =
               IF Get(calls[k].input, "error") = undefined
               THEN Under("ok", Read(calls[k].portal[2], Get(calls[k].input, "ok")))
               ELSE Under("error", Read(calls[k].portal[3], Get(calls[k].input, "error")))
       /\ (/\ calls[k].op = "write"
           /\ Holds(calls[k].input, "ok")
           /\ ~Holds(calls[k].input, "error"))
          => calls[k].out = Under("ok", Write(calls[k].portal[2], Get(calls[k].input, "ok")))
       /\ (/\ calls[k].op = "write"
           /\ Holds(calls[k].input, "error")
           /\ ~Holds(calls[k].input, "ok"))
          => calls[k].out = Under("error", Write(calls[k].portal[3], Get(calls[k].input, "error")))

\* C19: for every value returned by the read of a Result serializer exactly
\* one of isOk and isErr is true, and it is the one of the branch the read
\* took: isOk and not isErr after the ok branch, isErr and not isOk after the
\* error branch.
C19_ExactlyOneOfIsOkIsErr ==
  \A k \in 1..Len(calls) :
    (calls[k].portal[1] = "result" /\ calls[k].op = "read" /\ Returned(calls[k].out))
    => IF Get(calls[k].input, "error") = undefined
       THEN isOk(calls[k].out.val) /\ ~isErr(calls[k].out.val)
       ELSE isErr(calls[k].out.val) /\ ~isOk(calls[k].out.val)

RECURSIVE Shape(_)
Shape(p) ==
  CASE p[1] \in {"versioned", "optional", "nullable", "array"} -> <<p[1], Shape(p[2])>>
    [] p[1] \in {"obj", "partial_obj"} -> <<p[1], [i \in DOMAIN p[2] |-> Shape(p[2][i][2])]>>
    [] p[1] \in {"tuple", "combine"} -> <<p[1], [i \in DOMAIN p[2] |-> Shape(p[2][i])]>>
    [] p[1] = "variant" ->
         <<p[1], [i \in DOMAIN variantSerializers(p[2]) |-> Shape(variantSerializers(p[2])[i])]>>
    [] p[1] = "result" -> <<p[1], Shape(p[2]), Shape(p[3])>>
    [] OTHER -> <<p[1]>>

\* the described portal and any other portal that renders the same string
\* are built from the same kinds in the same structure
ToldApart(p) ==
  /\ \A q \in Portals : description(q) = description(p) => Shape(q) = Shape(p)
  /\ InIndexTs(p) =>
       \A q \in Portals :
         InIndexTs(q) /\ descriptionIndexTs(q) = descriptionIndexTs(p) => Shape(q) = Shape(p)

\* C21: each combinator kind renders with a template of its own: a portal
\* that has been described shares its description only with portals built
\* from the same combinator kinds in the same structure (optional(p) and
\* nullable(p), obj(f) and partial_obj(f) never render the same string), and
\* describing an equal portal gives the same string again.
C21_DescriptionTellsKindsApart ==
  \A k \in 1..Len(side) :
    side[k].op = "description" =>
      /\ side[k].out = description(side[k].portal)
      /\ ToldApart(side[k].portal)

(***************************************************************************)
(* Reading a record with defaults.                                         *)
(***************************************************************************)
\* the calls of read_with_defaults on a record, list and date excluded
WithDefaults ==
  {k \in 1..Len(side) : side[k].op = "read_with_defaults" /\ IsRecord(side[k].input)}

\* the outcome of reading the field of the k-th declaration from the input
FieldRead(c, k) == Read(c.portal[2][k][2], Get(c.input, c.portal[2][k][1]))

\* the declarations whose key the input has
Present(c) == {k \in DOMAIN c.portal[2] : Has(c.input, c.portal[2][k][1])}

\* each declared key with the value read from the input, or the default's
Defaulting(c) ==
  Obj([key \in {c.portal[2][k][1] : k \in DOMAIN c.portal[2]} |->
         LET k == CHOOSE k \in DOMAIN c.portal[2] : c.portal[2][k][1] = key
         IN IF k \in Present(c) THEN FieldRead(c, k).val ELSE Get(c.defaults, key)])

TupleCalls == {k \in 1..Len(calls) : calls[k].portal[1] = "tuple" /\ instanceofArray(calls[k].input)}

\* the outcome of the i-th declared portal on the i-th element of the input
Position(c, i) == Outcome(c.op, c.portal[2][i], c.input[2][i])

\* the first declared position whose element its portal rejects, 0 if none
FirstMismatch(c) ==
  IF \E i \in DOMAIN c.portal[2] : ~Returned(Position(c, i))
  THEN CHOOSE i \in DOMAIN c.portal[2] :
         /\ ~Returned(Position(c, i))
         /\ \A h \in 1..(i - 1) : Returned(Position(c, h))
  ELSE 0

\* C23: tuple(p1..pn).read requires a list of at least n elements, reads the
\* element at position i with p_i for every declared position and ignores
\* the elements after the n-th; a mismatch at position i is reported with
\* the fragment [i]; write does the same with the portals' writes.
C23_TupleReadsDeclaredPositions ==
  \A k \in TupleCalls :
    LET c == calls[k]
        n == Len(c.portal[2])
    IN IF Len(c.input[2]) < n THEN ThrewValidationError(c.out)
       ELSE IF FirstMismatch(c) = 0 THEN c.out = Ok(Arr([i \in 1..n |-> Position(c, i).val]))
       ELSE /\ ThrewValidationError(c.out)
            /\ c.out.path = "[" \o ToString(FirstMismatch(c) - 1) \o "]" \o Position(c, FirstMismatch(c)).path

\* C26: every value a tuple's read or write returns is a list of exactly as
\* many elements as the tuple declares, whatever the length of the input;
\* so the inner tuple(int, raw) of a versioned portal hands a tag and a
\* payload slot to versioned.read whenever it returns.
C26_TupleReturnsDeclaredLength ==
  /\ \A k \in TupleCalls :
       Returned(calls[k].out) => Len(calls[k].out.val[2]) = Len(calls[k].portal[2])
  /\ vpc \in {"loop", "done"} /\ Returned(Read(inner, vinput))
       => Len(Read(inner, vinput).val[2]) = Len(inner[2])

(***************************************************************************)
(* Version tags beyond the current version.                                *)
(***************************************************************************)
\* w is [v, d] with an integer tag v > N
TooNew(p, w) ==
  /\ instanceofArray(w)
  /\ Len(w[2]) = 2
  /\ IsFixed(w[2][1])
  /\ w[2][1][3] % Unit = 0
  /\ TagOf(w) > Len(p[3])

InitialVer == At(Read(inner, vinput).val, 0)

\* the turns the loop is to make from version v: N - v, none when v >= N
Turns(v) ==
  IF Len(vportal[3]) * Unit > v[3] THEN Len(vportal[3]) - (v[3] \div Unit) ELSE 0

\* the turns begun: those that applied a migration, and the one that threw
Begun ==
  Len(applied) + (IF vpc = "done" /\ schemaInputs = <<>> /\ Returned(Read(inner, vinput)) THEN 1 ELSE 0)

\* C25: versioned.read of a wire whose tag reads as an integer v ends, given
\* migrations that end: ver goes up by one in every turn of the loop, and
\* the loop makes exactly max(0, N - v) turns, those of the versions
\* v, v+1, ..., N-1.
C25_LoopMakesNMinusVTurns ==
  /\ vpc \in {"loop", "done"} /\ TotalMigrations(vportal) /\ IsFixed(ver)
       => /\ applied = [i \in 1..Len(applied) |-> Num(InitialVer[3] + (i - 1) * Unit)]
          /\ ver = Num(InitialVer[3] + Len(applied) * Unit)
          /\ Begun <= Turns(InitialVer)
  /\ vpc = "done" /\ TotalMigrations(vportal) /\ Returned(Read(inner, vinput)) /\ IsFixed(InitialVer)
       => Begun = Turns(InitialVer)

(***************************************************************************)
(* Writing what was read back.                                             *)
(***************************************************************************)
\* C27: for every portal P and every value v that P.write accepts, the wire
\* value can be read back and writing what was read gives the same wire
\* value again: P.write(P.read(P.write(v))) returns P.write(v).
C27_WireValueIsStable ==
  \A k \in 1..Len(calls) :
    calls[k].op = "write" /\ Returned(calls[k].out)
    => /\ Returned(Read(calls[k].portal, calls[k].out.val))
       /\ Write(calls[k].portal, Read(calls[k].portal, calls[k].out.val).val) = calls[k].out

(***************************************************************************)
(* The keys of a record that was read or written.                          *)
(***************************************************************************)
\* the calls of obj and partial_obj that returned
RecordCalls ==
  {k \in 1..Len(calls) : calls[k].portal[1] \in {"obj", "partial_obj"} /\ Returned(calls[k].out)}

\* the declarations whose portal takes an absent value: all those of
\* partial_obj, and those of obj whose portal is an optional
Tolerant(p) == {k \in DOMAIN p[2] : p[1] = "partial_obj" \/ p[2][k][2][1] = "optional"}

\* C28: every value that obj or partial_obj returns from read or write is a
\* record whose keys are exactly the declared field names: a key of the
\* input that is not declared is dropped, and a declared key is there also
\* when the input has no value for it, with undefined on read and null on
\* write.
C28_ExactlyTheDeclaredKeys ==
  \A i \in RecordCalls :
    LET c == calls[i]
    IN /\ c.out.val[1] = "object"
       /\ DOMAIN c.out.val[2] = {c.portal[2][k][1] : k \in DOMAIN c.portal[2]}
       /\ \A k \in Tolerant(c.portal) :
            looseNull(Get(c.input, c.portal[2][k][1]))
            => c.out.val[2][c.portal[2][k][1]] = (IF c.op = "read" THEN undefined ELSE null)

\* partial_obj({x: array(int)}) reads {y: [1, 12]} as {x: undefined}: y is
\* dropped and x is there
C28_Witness ==
  \E i \in RecordCalls :
    /\ calls[i].portal = partialXArrayInt
    /\ calls[i].op = "read"
    /\ calls[i].input = Obj("y" :> Arr(<<IntNum(1), IntNum(12)>>))
    /\ calls[i].out = Ok(Obj("x" :> undefined))

(***************************************************************************)
(* Several failing children.                                               *)
(***************************************************************************)
\* the containers that visit their children one after the other and locate
\* a failure
Visiting == {"array", "tuple", "obj", "partial_obj"}

\* the input without what comes after the j-th child: the elements of a list
\* after the j-th, the keys of a record declared after the j-th
Cut(p, v, j) ==
  CASE v[1] = "array" /\ p[1] \in {"array", "tuple"} -> Arr(SubSeq(v[2], 1, j))
    [] v[1] = "object" /\ p[1] \in {"obj", "partial_obj"} ->
         Obj([key \in DOMAIN v[2] \ {p[2][k][1] : k \in (j + 1)..Len(p[2])} |-> v[2][key]])
    [] OTHER -> v

\* the children whose read or write fails
Failing(cs, op) == {j \in DOMAIN cs : ~Returned(Outcome(op, cs[j].portal, cs[j].input))}

VariantCalls == {k \in 1..Len(calls) : calls[k].portal[1] = "variant" /\ Returned(calls[k].out)}

\* what the branch chosen by the tag returns for the whole input
Branch(c) ==
  Outcome(c.op, variantSerializers(c.portal[2])[indexOf(variantTypes(c.portal[2]), Get(c.input, "type")) + 1],
          c.input)

\* C30: in every value variant.read or variant.write returns, the field type
\* is the type of the input, also when the record portal of the branch
\* declares a field type itself and reads or writes it as another value; the
\* other fields are the branch's.
C30_TagIsTheInputsTag ==
  \A k \in VariantCalls :
    LET c == calls[k]
    IN /\ c.out.val[1] = "object"
       /\ "type" \in DOMAIN c.out.val[2]
       /\ c.out.val[2]["type"] = Get(c.input, "type")
       /\ \A key \in DOMAIN c.out.val[2] \ {"type"} : c.out.val[2][key] = Get(Branch(c).val, key)

\* variant('circle', obj({type: nothing, radius: float})) has read
\* {type: 'circle', radius: 1.5}: the branch reads type as undefined, the
\* value returned has the type 'circle'
C30_Witness ==
  \E k \in VariantCalls :
    /\ calls[k].portal = shapeTyped
    /\ calls[k].op = "read"
    /\ calls[k].input = circleOk
    /\ Get(Branch(calls[k]).val, "type") = undefined
    /\ calls[k].out = Ok(Obj("type" :> circle @@ "radius" :> OneAndAHalf))

====
